---------------------------- MODULE Spec2Model ----------------------------
(***************************************************************************)
(* Model of the scoring and filtering core of ma-target-discovery:         *)
(* app/score/filters.py (HardFilters), app/score/evidence.py               *)
(* (EvidenceExtractor) and app/score/scorer.py (Scorer), over the data     *)
(* model of app/models/candidate.py and app/models/criteria.py, and of     *)
(* app/enrich/dedupe.py (Deduplicator), and of the search runs of          *)
(* app/api/routes.py (start_search, run_search, get_status, get_results).  *)
(*                                                                         *)
(* Conventions.                                                            *)
(*  - Python floats are modelled by exact rationals <<n, d>> with d > 0,   *)
(*    kept in lowest terms, so that equal values are equal tuples.         *)
(*  - Optional[T] is modelled by a sequence: <<>> is None, <<v>> is v.     *)
(*  - A Python str is a TLA+ string; text operations work on characters.   *)
(*  - A pydantic object is a record; reading an attribute the object does  *)
(*    not have raises AttributeError, modelled by HasAttr.                 *)
(*  - A call yields [raised |-> "", value |-> v] when it returns v and     *)
(*    [raised |-> <exception name>, value |-> <<>>] when it raises.        *)
(***************************************************************************)
EXTENDS Integers, Sequences, FiniteSets, TLC

VARIABLES
    criteria,     \* the AcquisitionCriteria of the run
    companies,    \* the input list of company (or candidate) objects
    pc,           \* "idle" before the call, "done" after it returned or raised
    op,           \* the operation that was called
    arg,          \* index of the company the call was about (0: the whole list);
                  \* for deduplicate, the candidate list as it was passed
    result,       \* what the call returned or raised
    active_searches,  \* routes.py: the dict run_id -> tracked search
    tasks,        \* the background tasks: run_id -> where run_search stands
    search_runs            \* the search_runs table: run_id -> row

vars == <<criteria, companies, pc, op, arg, result, active_searches, tasks, search_runs>>

-----------------------------------------------------------------------------
(* Rational arithmetic (Python float, idealised).                          *)

RECURSIVE GCD(_, _)
GCD(a, b) == IF b = 0 THEN a ELSE GCD(b, a % b)

Abs(a) == IF a < 0 THEN -a ELSE a

Norm(n, d) ==
    LET g == GCD(Abs(n), Abs(d))
        s == IF d < 0 THEN -1 ELSE 1
    IN  << (s * n) \div g, (s * d) \div g >>

Q(n, d) == Norm(n, d)
Zero == Q(0, 1)
One == Q(1, 1)
RAdd(a, b) == Norm(a[1] * b[2] + b[1] * a[2], a[2] * b[2])
RMul(a, b) == Norm(a[1] * b[1], a[2] * b[2])
RDivInt(a, k) == Norm(a[1], a[2] * k)
RDiv(a, b) == Norm(a[1] * b[2], a[2] * b[1])
RLt(a, b) == a[1] * b[2] < b[1] * a[2]
RLe(a, b) == a[1] * b[2] <= b[1] * a[2]
RMax(a, b) == IF RLt(a, b) THEN b ELSE a
RMin(a, b) == IF RLt(b, a) THEN b ELSE a
\* int(x) for x >= 0: truncation
RFloor(a) == a[1] \div a[2]

RECURSIVE RSum(_)
RSum(s) == IF s = <<>> THEN Zero ELSE RAdd(Head(s), RSum(Tail(s)))

-----------------------------------------------------------------------------
(* Sequences as Python lists.                                              *)

InSeq(x, s) == \E i \in 1..Len(s) : s[i] = x
Map(f(_), s) == [i \in 1..Len(s) |-> f(s[i])]
CountIf(P(_), s) == Cardinality({i \in 1..Len(s) : P(s[i])})

RECURSIVE Flatten(_)
Flatten(ss) == IF ss = <<>> THEN <<>> ELSE Head(ss) \o Flatten(Tail(ss))

\* truthiness of an Optional[int] (None and 0 are falsy)
Truthy(o) == o # <<>> /\ o[1] # 0

\* truthiness of an Optional[str] (None and "" are falsy)
TruthyStr(o) == o # <<>> /\ o[1] # ""

-----------------------------------------------------------------------------
(* Strings.                                                                *)

\* the lower-case letter of every ASCII upper-case letter
LowerOf ==
    [ A |-> "a", B |-> "b", C |-> "c", D |-> "d", E |-> "e", F |-> "f", G |-> "g",
      H |-> "h", I |-> "i", J |-> "j", K |-> "k", L |-> "l", M |-> "m", N |-> "n",
      O |-> "o", P |-> "p", Q |-> "q", R |-> "r", S |-> "s", T |-> "t", U |-> "u",
      V |-> "v", W |-> "w", X |-> "x", Y |-> "y", Z |-> "z" ]

UpperSet == DOMAIN LowerOf
LowerSet == { LowerOf[ch] : ch \in UpperSet }
DigitSet == { "0", "1", "2", "3", "4", "5", "6", "7", "8", "9", "_" }

LowerChar(ch) == IF ch \in UpperSet THEN LowerOf[ch] ELSE ch

\* str.lower(), one half of the string after the other
RECURSIVE lower(_)
lower(s) ==
    IF Len(s) <= 1 THEN LowerChar(s)
    ELSE lower(SubSeq(s, 1, Len(s) \div 2)) \o lower(SubSeq(s, Len(s) \div 2 + 1, Len(s)))

\* needle in hay
Contains(hay, needle) ==
    \E i \in 1..(Len(hay) - Len(needle) + 1) :
        SubSeq(hay, i, i + Len(needle) - 1) = needle

\* regex \w
IsWordChar(ch) == ch \in LowerSet \/ ch \in UpperSet \/ ch \in DigitSet \/ ch = "_"

\* whether position i of s (1-based) holds a word character; FALSE outside s
WordAt(s, i) == i >= 1 /\ i <= Len(s) /\ IsWordChar(SubSeq(s, i, i))

\* regex \b between positions i-1 and i of s
Boundary(s, i) == WordAt(s, i - 1) # WordAt(s, i)

IsSpace(ch) == ch = " " \/ ch = "\n" \/ ch = "\t"

RECURSIVE lstrip(_)
lstrip(s) == IF s # "" /\ IsSpace(Head(s)) THEN lstrip(Tail(s)) ELSE s

RECURSIVE rstrip(_)
rstrip(s) ==
    IF s # "" /\ IsSpace(SubSeq(s, Len(s), Len(s)))
    THEN rstrip(SubSeq(s, 1, Len(s) - 1))
    ELSE s

strip(s) == rstrip(lstrip(s))

\* "\n".join(texts)
RECURSIVE join(_)
join(texts) ==
    IF texts = <<>> THEN ""
    ELSE IF Len(texts) = 1 THEN texts[1]
    ELSE texts[1] \o "\n" \o join(Tail(texts))

\* str.replace("_", " ")
RECURSIVE replace_underscores(_)
replace_underscores(s) ==
    IF s = "" THEN ""
    ELSE (IF Head(s) = "_" THEN " " ELSE Head(s)) \o replace_underscores(Tail(s))

-----------------------------------------------------------------------------
(* Data model: app/models/candidate.py, app/models/criteria.py.             *)

\* getattr: whether the object declares the attribute
HasAttr(obj, a) == a \in DOMAIN obj

\* EnrichedCompany() with every optional field absent. Fields no modelled
\* code reads (description, source, discovered_at, ...) are left out.
EnrichedCompany ==
    [ name                      |-> "Test Company",
      website                   |-> <<>>,
      headquarters              |-> <<>>,
      employees_estimate        |-> <<>>,
      revenue_estimate          |-> <<>>,
      funding_total             |-> <<>>,
      business_model            |-> <<>>,
      business_model_confidence |-> Zero,
      customer_types            |-> <<>>,
      industries                |-> <<>>,
      compliance_indicators     |-> <<>>,
      signals_detected          |-> <<>>,
      disqualifiers_detected    |-> <<>>,
      page_contents             |-> <<>>,    \* dict url -> text, in insertion order
      extraction_confidence     |-> Zero ]

\* The attributes Scorer reads that EnrichedCompany does not declare
\* (scorer.py:104,112,121,405,411); they are declared, with these defaults,
\* on the parser's ExtractionResult only. A company object carries them only
\* if its class declares them.
VerticalFields ==
    [ is_cannabis_industry        |-> FALSE,
      cannabis_confidence         |-> Zero,
      software_revenue_confidence |-> Zero,
      revenue_is_estimated        |-> FALSE ]

\* SizeConstraints()
SizeConstraints ==
    [ revenue_min   |-> <<>>, revenue_max   |-> <<>>,
      employees_min |-> <<>>, employees_max |-> <<>>,
      funding_min   |-> <<>>, funding_max   |-> <<>> ]

\* GeographyFilter()
GeographyFilter ==
    [ countries |-> <<>>, regions |-> <<>>, exclude_countries |-> <<>>,
      headquarters_only |-> FALSE ]

\* BusinessModelFilter()
BusinessModelFilter ==
    [ types |-> <<>>, exclude_types |-> <<>>, recurring_revenue_required |-> FALSE ]

\* the empty dict
EmptyDict == [k \in {} |-> Zero]

\* AcquisitionCriteria(): no constraint at all
AcquisitionCriteria ==
    [ industries_include |-> <<>>,
      industries_exclude |-> <<>>,
      keywords_include   |-> <<>>,
      geography          |-> GeographyFilter,
      size               |-> SizeConstraints,
      business_model     |-> BusinessModelFilter,
      customer_type      |-> <<>>,
      compliance_tags    |-> <<>>,
      preferred_signals  |-> <<>>,
      dealbreakers       |-> <<>>,
      weights            |-> EmptyDict ]

\* AcquisitionCriteria.get_weight
get_weight(crit, criterion, default) ==
    IF criterion \in DOMAIN crit.weights THEN crit.weights[criterion] ELSE default

-----------------------------------------------------------------------------
(* app/score/filters.py                                                    *)

\* a variant of check_dimension that never tests the maximum
check_minimum_only(label, value, min, max) ==
    IF Truthy(value) /\ Truthy(min) /\ value[1] < min[1]
    THEN << <<label \o " below minimum", value[1], min[1]>> >>
    ELSE <<>>

\* one dimension of _check_size_constraints; messages are <<text, value, bound>>
check_dimension(label, value, min, max) ==
    IF Truthy(value)
    THEN (IF Truthy(min) /\ value[1] < min[1]
          THEN << <<label \o " below minimum", value[1], min[1]>> >> ELSE <<>>)
         \o
         (IF Truthy(max) /\ value[1] > max[1]
          THEN << <<label \o " above maximum", value[1], max[1]>> >> ELSE <<>>)
    ELSE <<>>

_check_size_constraints(company, crit) ==
    LET size == crit.size
    IN  check_dimension("Employee count", company.employees_estimate,
                        size.employees_min, size.employees_max)
        \o check_dimension("Revenue", company.revenue_estimate,
                           size.revenue_min, size.revenue_max)
        \o check_dimension("Funding", company.funding_total,
                           size.funding_min, size.funding_max)

\* for x in xs: if x.lower() in location: ...
AnyIn(xs, location) == \E i \in 1..Len(xs) : Contains(location, lower(xs[i]))

\* a variant that looks at the required regions only when no required
\* country is configured
regions_after_countries(company, crit) ==
    LET geo == crit.geography
    IN  IF ~TruthyStr(company.headquarters) THEN <<>>
        ELSE LET location == lower(company.headquarters[1])
                 excluded == SelectSeq(geo.exclude_countries,
                                 LAMBDA c : Contains(location, lower(c)))
             IN  Map(LAMBDA c : <<"Company in excluded country", c>>, excluded)
                 \o (IF geo.countries # <<>> /\ ~AnyIn(geo.countries, location)
                     THEN << <<"Company not in required countries", geo.countries>> >>
                     ELSE <<>>)
                 \o (IF geo.countries = <<>> /\ geo.regions # <<>>
                        /\ ~AnyIn(geo.regions, location)
                     THEN << <<"Company not in required regions", geo.regions>> >>
                     ELSE <<>>)

_check_geography_constraints(company, crit) ==
    LET geo == crit.geography
    IN  IF ~TruthyStr(company.headquarters) THEN <<>>
        ELSE LET location == lower(company.headquarters[1])
                 excluded == SelectSeq(geo.exclude_countries,
                                 LAMBDA c : Contains(location, lower(c)))
             IN  Map(LAMBDA c : <<"Company in excluded country", c>>, excluded)
                 \o (IF geo.countries # <<>> /\ ~AnyIn(geo.countries, location)
                     THEN << <<"Company not in required countries", geo.countries>> >>
                     ELSE <<>>)
                 \o (IF geo.regions # <<>> /\ ~AnyIn(geo.regions, location)
                     THEN << <<"Company not in required regions", geo.regions>> >>
                     ELSE <<>>)

\* the list [x.lower() for x in xs]
LowerAll(xs) == Map(lower, xs)

\* a variant of disqualification_checks that looks at dealbreakers only
dealbreaker_checks_only(company, crit) ==
    Map(LAMBDA dq : <<"Dealbreaker", dq>>,
        SelectSeq(company.disqualifiers_detected,
                  LAMBDA dq : InSeq(dq, crit.dealbreakers)))

\* the three disqualification checks of HardFilters.apply, in order
disqualification_checks(company, crit) ==
    Map(LAMBDA dq : <<"Dealbreaker", dq>>,
        SelectSeq(company.disqualifiers_detected,
                  LAMBDA dq : InSeq(dq, crit.dealbreakers)))
    \o Map(LAMBDA ind : <<"Excluded industry", ind>>,
           SelectSeq(company.industries,
                     LAMBDA ind : InSeq(lower(ind), LowerAll(crit.industries_exclude))))
    \o (IF TruthyStr(company.business_model)
           /\ InSeq(lower(company.business_model[1]),
                    LowerAll(crit.business_model.exclude_types))
        THEN << <<"Excluded business model", company.business_model[1]>> >>
        ELSE <<>>)

\* the recurring-revenue check of HardFilters.apply
recurring_revenue_check(company, crit) ==
    IF crit.business_model.recurring_revenue_required
       /\ company.business_model \notin { <<"SaaS">>, <<"subscription">> }
    THEN << <<"Recurring revenue required but not detected">> >>
    ELSE <<>>

\* a variant of passed_flag that ignores the failed filters
passed_unless_disqualified(is_disqualified, failed_filters) == ~is_disqualified

\* passed = not is_disqualified and len(failed_filters) == 0
passed_flag(is_disqualified, failed_filters) ==
    ~is_disqualified /\ Len(failed_filters) = 0

\* FilterResult as HardFilters.apply fills it in
FilterResult(failed_filters, disqualification_reasons) ==
    [ passed                   |-> passed_flag(Len(disqualification_reasons) > 0,
                                               failed_filters),
      failed_filters           |-> failed_filters,
      is_disqualified          |-> Len(disqualification_reasons) > 0,
      disqualification_reasons |-> disqualification_reasons ]

\* HardFilters.apply
apply(company, crit) ==
    FilterResult(_check_size_constraints(company, crit)
                 \o _check_geography_constraints(company, crit)
                 \o recurring_revenue_check(company, crit),
                 disqualification_checks(company, crit))

\* quick_filter
quick_filter(company, crit) == apply(company, crit).passed

-----------------------------------------------------------------------------
(* app/score/evidence.py                                                   *)

MAX_SNIPPET_LENGTH == 200
\* characters of context taken before and after the match
CONTEXT_CHARS == 80

Max(a, b) == IF a > b THEN a ELSE b
Min(a, b) == IF a < b THEN a ELSE b

\* the least element of a set of positive indices, 0 for the empty set
First(S) == IF S = {} THEN 0 ELSE CHOOSE i \in S : \A j \in S : i <= j

\* re.search(r"\b" + re.escape(keyword_lower) + r"\b", content_lower): the
\* 0-based start of the leftmost match, or -1
search(content_lower, keyword_lower) ==
    First({ i \in 1..(Len(content_lower) - Len(keyword_lower) + 1) :
              /\ SubSeq(content_lower, i, i + Len(keyword_lower) - 1) = keyword_lower
              /\ Boundary(content_lower, i)
              /\ Boundary(content_lower, i + Len(keyword_lower)) }) - 1

\* the url of page i (1-based), None for page 0
url_of(page_contents, i) == IF i = 0 THEN <<>> ELSE << page_contents[i][1] >>

\* the first page whose text contains the keyword, else None
find_source_url(keyword_lower, page_contents) ==
    url_of(page_contents,
           First({ i \in 1..Len(page_contents) :
                     Contains(lower(page_contents[i][2]), keyword_lower) }))

\* snippet[:MAX_SNIPPET_LENGTH] + "..." when the snippet is too long
truncate(snippet) ==
    IF Len(snippet) > MAX_SNIPPET_LENGTH
    THEN SubSeq(snippet, 1, MAX_SNIPPET_LENGTH) \o "..."
    ELSE snippet

\* the snippet content[start:end], stripped, marked and truncated
snippet_of(content, start, end) ==
    truncate((IF start > 0 THEN "..." ELSE "")
             \o strip(SubSeq(content, start + 1, end))
             \o (IF end < Len(content) THEN "..." ELSE ""))

\* the part of _find_snippet after the search; m is match.start(), or -1
snippet_around(content, keyword_lower, m, page_contents) ==
    IF m < 0 THEN << <<>>, <<>> >>
    ELSE << << snippet_of(content, Max(0, m - CONTEXT_CHARS),
                          Min(Len(content), m + Len(keyword_lower) + CONTEXT_CHARS)) >>,
            find_source_url(keyword_lower, page_contents) >>

\* EvidenceExtractor._find_snippet: <<snippet, source_url>>, both Optional
_find_snippet(content, keyword, page_contents) ==
    snippet_around(content, lower(keyword), search(lower(content), lower(keyword)),
                   page_contents)

\* Evidence(...); confidence is validated (ge=0.0, le=1.0)
Evidence(criterion, found, company, confidence) ==
    [ criterion         |-> criterion,
      snippet           |-> found[1][1],
      source_url        |-> IF TruthyStr(found[2]) THEN found[2][1]
                            ELSE IF TruthyStr(company.website) THEN company.website[1]
                            ELSE "",
      confidence        |-> confidence,
      extraction_method |-> "keyword" ]

\* `if snippet:`
Found(found) == TruthyStr(found[1])

\* evidence for the first keyword of the list that occurs in the content
EvidenceAt(criterion, founds, k, company, confidence) ==
    IF k = 0 THEN <<>> ELSE << Evidence(criterion, founds[k], company, confidence) >>

FirstFound(criterion, founds, company, confidence) ==
    EvidenceAt(criterion, founds, First({ i \in 1..Len(founds) : Found(founds[i]) }),
               company, confidence)

FirstHit(criterion, keywords, content, company, confidence) ==
    FirstFound(criterion,
               Map(LAMBDA kw : _find_snippet(content, kw, company.page_contents), keywords),
               company, confidence)

\* evidence for the keyword itself
OneHit(criterion, keyword, content, company, confidence) ==
    FirstHit(criterion, <<keyword>>, content, company, confidence)

_extract_industry_evidence(company, crit, content) ==
    Flatten(Map(LAMBDA industry :
                    IF InSeq(lower(industry), LowerAll(company.industries))
                    THEN OneHit("industry:" \o industry, industry, content, company, Q(8, 10))
                    ELSE <<>>,
                crit.industries_include))

_extract_keyword_evidence(company, crit, content) ==
    Flatten(Map(LAMBDA keyword :
                    OneHit("keyword:" \o keyword, keyword, content, company, Q(7, 10)),
                crit.keywords_include))

\* bm_keywords.get(business_model, [business_model.lower()])
bm_keywords(bm) ==
    CASE bm = "SaaS" -> <<"subscription", "monthly", "cloud", "saas", "software as a service">>
      [] bm = "marketplace" -> <<"marketplace", "platform", "connect", "buyers", "sellers">>
      [] bm = "services" -> <<"consulting", "services", "agency", "professional">>
      [] bm = "hardware" -> <<"device", "hardware", "physical", "manufacturing">>
      [] bm = "e-commerce" -> <<"shop", "store", "buy", "commerce", "retail">>
      [] OTHER -> << lower(bm) >>

_extract_business_model_evidence(company, crit, content) ==
    IF ~TruthyStr(company.business_model) THEN <<>>
    ELSE IF crit.business_model.types # <<>>
            /\ ~InSeq(lower(company.business_model[1]), LowerAll(crit.business_model.types))
    THEN <<>>
    ELSE FirstHit("business_model:" \o company.business_model[1],
                  bm_keywords(company.business_model[1]), content, company,
                  company.business_model_confidence)

\* customer_keywords.get(ctype, [ctype.lower()])
customer_keywords(ctype) ==
    CASE ctype = "B2B" -> <<"business", "enterprise", "company", "organization", "b2b">>
      [] ctype = "B2C" -> <<"consumer", "individual", "personal", "b2c">>
      [] ctype = "enterprise" -> <<"enterprise", "fortune 500", "large organization">>
      [] ctype = "SMB" -> <<"small business", "smb", "growing business">>
      [] OTHER -> << lower(ctype) >>

_extract_customer_type_evidence(company, crit, content) ==
    Flatten(Map(LAMBDA ctype :
                    IF InSeq(ctype, company.customer_types)
                    THEN FirstHit("customer_type:" \o ctype, customer_keywords(ctype),
                                  content, company, Q(7, 10))
                    ELSE <<>>,
                crit.customer_type))

_extract_compliance_evidence(company, crit, content) ==
    Flatten(Map(LAMBDA compliance :
                    IF InSeq(compliance, company.compliance_indicators)
                    THEN OneHit("compliance:" \o compliance, compliance, content,
                                company, Q(9, 10))
                    ELSE <<>>,
                crit.compliance_tags))

\* signal_keywords.get(signal, [signal.replace("_", " ")])
signal_keywords(signal) ==
    CASE signal = "growing_team" -> <<"hiring", "join our team", "careers", "open positions">>
      [] signal = "recent_funding" -> <<"raised", "funding", "series", "investment">>
      [] signal = "product_launch" -> <<"launched", "announcing", "introducing", "new product">>
      [] signal = "customer_growth" -> <<"customers", "users", "clients", "trusted by">>
      [] OTHER -> << replace_underscores(signal) >>

_extract_signal_evidence(company, crit, content) ==
    Flatten(Map(LAMBDA signal :
                    IF InSeq(signal, company.signals_detected)
                    THEN FirstHit("signal:" \o signal, signal_keywords(signal),
                                  content, company, Q(6, 10))
                    ELSE <<>>,
                crit.preferred_signals))

\* "\n".join(company.page_contents.values())
all_content(company) == join(Map(LAMBDA page : page[2], company.page_contents))

\* EvidenceExtractor.extract_evidence: the evidence list it builds
extract_from(company, crit, content) ==
    _extract_industry_evidence(company, crit, content)
    \o _extract_keyword_evidence(company, crit, content)
    \o _extract_business_model_evidence(company, crit, content)
    \o _extract_customer_type_evidence(company, crit, content)
    \o _extract_compliance_evidence(company, crit, content)
    \o _extract_signal_evidence(company, crit, content)

extract_evidence(company, crit) == extract_from(company, crit, all_content(company))

\* Field(ge=0.0, le=1.0)
InUnit(x) == RLe(Zero, x) /\ RLe(x, One)

\* constructing an Evidence whose confidence is out of range raises
\* ValidationError (candidate.py:14)
evidence_invalid(evidence) ==
    \E i \in 1..Len(evidence) : ~InUnit(evidence[i].confidence)

-----------------------------------------------------------------------------
(* app/score/scorer.py                                                     *)

Categories ==
    <<"industry", "keyword", "business_model", "customer_type",
      "geography", "size", "compliance", "signals">>

\* a variant of DEFAULT_WEIGHTS with the fallback 0.5 for every category
flat_default_weights(criterion) == Q(5, 10)

\* Scorer.DEFAULT_WEIGHTS.get(criterion, 0.5)
DEFAULT_WEIGHTS(criterion) ==
    CASE criterion = "industry" -> Q(20, 100)
      [] criterion = "keyword" -> Q(15, 100)
      [] criterion = "business_model" -> Q(20, 100)
      [] criterion = "customer_type" -> Q(15, 100)
      [] criterion = "geography" -> Q(10, 100)
      [] criterion = "size" -> Q(10, 100)
      [] criterion = "compliance" -> Q(5, 100)
      [] criterion = "signals" -> Q(5, 100)
      [] OTHER -> Q(5, 10)

\* a variant of Fraction without the cap at 1.0
uncapped_fraction(matches, n) == Q(matches, n)

\* min(matches / n, 1.0)
Fraction(matches, n) == RMin(Q(matches, n), One)

_score_industry(company, crit) ==
    IF crit.industries_include = <<>> THEN One
    ELSE IF company.industries = <<>> THEN Zero
    ELSE Fraction(CountIf(LAMBDA ind : InSeq(lower(ind), LowerAll(crit.industries_include)),
                          company.industries),
                  Len(crit.industries_include))

\* criterion.startswith("keyword:")
IsKeywordCriterion(criterion) ==
    Len(criterion) >= 8 /\ SubSeq(criterion, 1, 8) = "keyword:"

_score_keywords(company, crit, evidence) ==
    IF crit.keywords_include = <<>> THEN One
    ELSE Fraction(Cardinality({ evidence[i].criterion : i \in
                                  { j \in 1..Len(evidence) :
                                      IsKeywordCriterion(evidence[j].criterion) } }),
                  Len(crit.keywords_include))

_score_business_model(company, crit) ==
    IF crit.business_model.types = <<>> THEN One
    ELSE IF ~TruthyStr(company.business_model) THEN Zero
    ELSE IF InSeq(lower(company.business_model[1]), LowerAll(crit.business_model.types))
    THEN company.business_model_confidence
    ELSE Zero

_score_customer_type(company, crit) ==
    IF crit.customer_type = <<>> THEN One
    ELSE IF company.customer_types = <<>> THEN Zero
    ELSE Fraction(CountIf(LAMBDA ct : InSeq(ct, crit.customer_type), company.customer_types),
                  Len(crit.customer_type))

_score_geography(company, crit) ==
    IF crit.geography.countries = <<>> /\ crit.geography.regions = <<>> THEN One
    ELSE IF ~TruthyStr(company.headquarters) THEN Q(1, 2)
    ELSE LET location == lower(company.headquarters[1])
         IN  IF crit.geography.countries # <<>>
             THEN (IF AnyIn(crit.geography.countries, location) THEN One ELSE Zero)
             ELSE IF crit.geography.regions # <<>>
             THEN (IF AnyIn(crit.geography.regions, location) THEN One ELSE Zero)
             ELSE Q(1, 2)

\* a variant of score_dimension that gives full credit to every known value
score_known_dimension(value, min, max) ==
    IF Truthy(min) \/ Truthy(max)
    THEN IF Truthy(value) THEN <<One>> ELSE << Q(1, 2) >>
    ELSE <<>>

\* one dimension of _score_size: the scores it appends
score_dimension(value, min, max) ==
    IF Truthy(min) \/ Truthy(max)
    THEN IF Truthy(value)
         THEN (IF (Truthy(min) /\ value[1] < min[1]) \/ (Truthy(max) /\ value[1] > max[1])
               THEN <<Zero>> ELSE <<One>>)
         ELSE << Q(1, 2) >>
    ELSE <<>>

\* sum(scores) / len(scores), 1.0 for no scores
average_or_one(scores) ==
    IF scores = <<>> THEN One ELSE RDivInt(RSum(scores), Len(scores))

_score_size(company, crit) ==
    average_or_one(
        score_dimension(company.employees_estimate,
                        crit.size.employees_min, crit.size.employees_max)
        \o score_dimension(company.revenue_estimate,
                           crit.size.revenue_min, crit.size.revenue_max)
        \o score_dimension(company.funding_total,
                           crit.size.funding_min, crit.size.funding_max))

_score_compliance(company, crit) ==
    IF crit.compliance_tags = <<>> THEN One
    ELSE IF company.compliance_indicators = <<>> THEN Zero
    ELSE Q(CountIf(LAMBDA tag : InSeq(tag, company.compliance_indicators),
                   crit.compliance_tags),
           Len(crit.compliance_tags))

\* a variant of _score_signals that wants detected signals even when the
\* criteria prefer none
_score_signals_strict(company, crit) ==
    IF company.signals_detected = <<>> THEN Zero
    ELSE IF crit.preferred_signals = <<>> THEN One
    ELSE Q(CountIf(LAMBDA signal : InSeq(signal, company.signals_detected),
                   crit.preferred_signals),
           Len(crit.preferred_signals))

_score_signals(company, crit) ==
    IF crit.preferred_signals = <<>> THEN One
    ELSE IF company.signals_detected = <<>> THEN Zero
    ELSE Q(CountIf(LAMBDA signal : InSeq(signal, company.signals_detected),
                   crit.preferred_signals),
           Len(crit.preferred_signals))

\* a variant of industry_with_boost that adds the confidence to the base
\* score, capped at 1.0
industry_summed(company, crit) ==
    IF company.is_cannabis_industry
       /\ \E i \in 1..Len(crit.industries_include) :
              Contains(lower(crit.industries_include[i]), "cannabis")
    THEN RMin(RAdd(_score_industry(company, crit), company.cannabis_confidence), One)
    ELSE _score_industry(company, crit)

\* the industry override of _calculate_scores (scorer.py:103-113)
industry_with_boost(company, crit) ==
    IF company.is_cannabis_industry
       /\ \E i \in 1..Len(crit.industries_include) :
              Contains(lower(crit.industries_include[i]), "cannabis")
    THEN RMax(_score_industry(company, crit), company.cannabis_confidence)
    ELSE _score_industry(company, crit)

\* the business-model override of _calculate_scores (scorer.py:119-123)
business_model_with_boost(company, crit) ==
    IF RLt(Q(1, 2), company.software_revenue_confidence)
    THEN RMax(_score_business_model(company, crit), company.software_revenue_confidence)
    ELSE _score_business_model(company, crit)

\* Scorer._calculate_scores; the company carries the vertical attributes
_calculate_scores(company, crit, evidence) ==
    [ industry       |-> industry_with_boost(company, crit),
      keyword        |-> _score_keywords(company, crit, evidence),
      business_model |-> business_model_with_boost(company, crit),
      customer_type  |-> _score_customer_type(company, crit),
      geography      |-> _score_geography(company, crit),
      size           |-> _score_size(company, crit),
      compliance     |-> _score_compliance(company, crit),
      signals        |-> _score_signals(company, crit) ]

\* a variant of weight_of that never looks at criteria.weights
default_weight_only(crit, criterion) == DEFAULT_WEIGHTS(criterion)

\* the weight _calculate_fit_score uses for a category
weight_of(crit, criterion) == get_weight(crit, criterion, DEFAULT_WEIGHTS(criterion))

\* a variant of normalize that reports the share of the weight that was missed
missed_share(weighted_sum, total_weight) ==
    IF total_weight = Zero THEN Zero
    ELSE RMul(RDiv(RAdd(total_weight, RMul(Q(-1, 1), weighted_sum)), total_weight),
              Q(100, 1))

\* (weighted_sum / total_weight) * 100, 0.0 for no weight
normalize(weighted_sum, total_weight) ==
    IF total_weight = Zero THEN Zero
    ELSE RMul(RDiv(weighted_sum, total_weight), Q(100, 1))

\* Scorer._calculate_fit_score
_calculate_fit_score(score_breakdown, crit) ==
    normalize(RSum(Map(LAMBDA c : RMul(score_breakdown[c], weight_of(crit, c)), Categories)),
              RSum(Map(LAMBDA c : weight_of(crit, c), Categories)))

\* the five key fields of _calculate_confidence that are truthy
data_fields_present(company) ==
    (IF TruthyStr(company.business_model) THEN 1 ELSE 0)
    + (IF company.customer_types # <<>> THEN 1 ELSE 0)
    + (IF company.industries # <<>> THEN 1 ELSE 0)
    + (IF Truthy(company.employees_estimate) THEN 1 ELSE 0)
    + (IF TruthyStr(company.headquarters) THEN 1 ELSE 0)

\* a variant of confidence_factors that always takes all four factors
all_four_factors(company, evidence) ==
    << Q(data_fields_present(company), 5) >>
    \o (IF evidence # <<>>
        THEN << RDivInt(RSum(Map(LAMBDA e : e.confidence, evidence)), Len(evidence)) >>
        ELSE << Q(3, 10) >>)
    \o << company.business_model_confidence, company.extraction_confidence >>

\* the list confidence_factors of _calculate_confidence
confidence_factors(company, evidence) ==
    << Q(data_fields_present(company), 5) >>
    \o (IF evidence # <<>>
        THEN << RDivInt(RSum(Map(LAMBDA e : e.confidence, evidence)), Len(evidence)) >>
        ELSE << Q(3, 10) >>)
    \o (IF TruthyStr(company.business_model)
        THEN << company.business_model_confidence >> ELSE <<>>)
    \o (IF RLt(Zero, company.extraction_confidence)
        THEN << company.extraction_confidence >> ELSE <<>>)

\* sum(factors) / len(factors) if factors else 0.0
mean_or_zero(factors) ==
    IF factors = <<>> THEN Zero ELSE RDivInt(RSum(factors), Len(factors))

\* Scorer._calculate_confidence
_calculate_confidence(company, evidence, crit) ==
    mean_or_zero(confidence_factors(company, evidence))

\* int(confidence * 100)
Percent(x) == RFloor(RMul(x, Q(100, 1)))

\* xs[:n]
Take(xs, n) == SubSeq(xs, 1, Min(Len(xs), n))

MAX_SUMMARY == 7
MAX_LISTED == 3

\* a variant of finish_summary without the fallback entry
cut_summary(summary) == Take(summary, MAX_SUMMARY)

\* `if not summary: summary.append(...)`, then summary[:7]
finish_summary(summary) ==
    Take(IF summary = <<>> THEN << <<"Limited match data available", 0>> >> ELSE summary,
         MAX_SUMMARY)

\* [x for x in xs if x.lower() in [i.lower() for i in includes]]
matched_lower(xs, includes) ==
    SelectSeq(xs, LAMBDA x : InSeq(lower(x), LowerAll(includes)))

\* [x for x in xs if x in wanted]
matched(xs, wanted) == SelectSeq(xs, LAMBDA x : InSeq(x, wanted))

\* a bullet <<label, value>> when the condition holds
Bullet(cond, label, value) == IF cond THEN << <<label, value>> >> ELSE <<>>

\* Scorer._generate_summary
_generate_summary(company, crit, evidence, score_breakdown) ==
    finish_summary(
        Bullet(company.is_cannabis_industry,
               "CANNABIS SOFTWARE", Percent(company.cannabis_confidence))
        \o Bullet(Truthy(company.revenue_estimate),
                  IF company.revenue_is_estimated THEN "Estimated ARR" ELSE "ARR",
                  company.revenue_estimate)
        \o Bullet(RLt(Q(3, 10), company.software_revenue_confidence),
                  "Software revenue indicators",
                  Percent(company.software_revenue_confidence))
        \o Bullet(TruthyStr(company.business_model)
                      /\ RLt(Q(1, 2), score_breakdown.business_model),
                  "business model", company.business_model)
        \o Bullet(matched_lower(company.industries, crit.industries_include) # <<>>
                      /\ ~company.is_cannabis_industry,
                  "Industry",
                  Take(matched_lower(company.industries, crit.industries_include),
                       MAX_LISTED))
        \o Bullet(Truthy(company.employees_estimate),
                  "Team size", company.employees_estimate)
        \o Bullet(matched(company.customer_types, crit.customer_type) # <<>>,
                  "Customer focus", matched(company.customer_types, crit.customer_type))
        \o Bullet(matched(company.signals_detected, crit.preferred_signals) # <<>>,
                  "Signals",
                  Take(Map(replace_underscores,
                           matched(company.signals_detected, crit.preferred_signals)),
                       MAX_LISTED)))

\* what a call yields: a returned value, or a raised exception
Returned(v) == [raised |-> "", value |-> v]
Raised(e) == [raised |-> e, value |-> <<>>]

\* the attributes of the company that Scorer reads and EnrichedCompany lacks
CarriesVerticalFields(company) == \A a \in DOMAIN VerticalFields : HasAttr(company, a)

\* ScoredCompany validates fit_score (ge=0.0, le=100.0) and confidence
\* (ge=0.0, le=1.0) when it is constructed (candidate.py:75-76)
ScoredCompanyValid(fit_score, confidence) ==
    RLe(Zero, fit_score) /\ RLe(fit_score, Q(100, 1)) /\ InUnit(confidence)

\* a variant of final_fit_score without the override: the computed value stays
keep_fit_score(is_disqualified, fit_score) == fit_score

\* `if scored.is_disqualified: scored.fit_score = 0.0`
final_fit_score(is_disqualified, fit_score) ==
    IF is_disqualified THEN Zero ELSE fit_score

\* a variant of model_dump that normalises the industry labels to lower case
dump_normalised(company) ==
    [ a \in DOMAIN EnrichedCompany |->
        IF a = "industries" THEN LowerAll(company.industries) ELSE company[a] ]

\* company.model_dump(): the declared fields of the company with their values
model_dump(company) == [ a \in DOMAIN EnrichedCompany |-> company[a] ]

\* ScoredCompany(**company.model_dump(), ...): the declared company fields
\* and the scoring additions
ScoredCompany(company, filter_result, evidence, scoring, match_summary) ==
    model_dump(company)
    @@ [ fit_score                |-> final_fit_score(filter_result.is_disqualified,
                                                      scoring.fit_score),
         confidence               |-> scoring.confidence,
         rank                     |-> <<>>,
         passed_filters           |-> filter_result.passed,
         failed_filters           |-> filter_result.failed_filters,
         is_disqualified          |-> filter_result.is_disqualified,
         disqualification_reasons |-> filter_result.disqualification_reasons,
         evidence                 |-> evidence,
         match_summary            |-> match_summary,
         score_breakdown          |-> scoring.score_breakdown ]

\* the end of Scorer.score: the ScoredCompany is constructed and validated
construct(company, filter_result, evidence, scoring, match_summary) ==
    IF ~ScoredCompanyValid(scoring.fit_score, scoring.confidence)
    THEN Raised("ValidationError")
    ELSE Returned(ScoredCompany(company, filter_result, evidence, scoring, match_summary))

\* Scorer.score once the score breakdown is known
score_from_breakdown(company, crit, filter_result, evidence, score_breakdown) ==
    construct(company, filter_result, evidence,
              [ score_breakdown |-> score_breakdown,
                fit_score       |-> _calculate_fit_score(score_breakdown, crit),
                confidence      |-> _calculate_confidence(company, evidence, crit) ],
              _generate_summary(company, crit, evidence, score_breakdown))

\* Scorer.score once the filters are applied and the evidence is extracted
score_from_evidence(company, crit, filter_result, evidence) ==
    IF evidence_invalid(evidence) THEN Raised("ValidationError")
    ELSE IF ~CarriesVerticalFields(company) THEN Raised("AttributeError")
    ELSE score_from_breakdown(company, crit, filter_result, evidence,
                              _calculate_scores(company, crit, evidence))

\* Scorer.score
score(company, crit) ==
    score_from_evidence(company, crit, apply(company, crit),
                        extract_evidence(company, crit))

\* a variant of key_before that compares fit_score only
fit_before(a, b) == RLt(b.fit_score, a.fit_score)

\* the sort key (c.fit_score, c.confidence), compared for reverse=True:
\* whether a must come strictly before b
key_before(a, b) ==
    \/ RLt(b.fit_score, a.fit_score)
    \/ (a.fit_score = b.fit_score /\ RLt(b.confidence, a.confidence))

\* insert x behind every element that does not come strictly after it
RECURSIVE insert_sorted(_, _)
insert_sorted(sorted, x) ==
    IF sorted = <<>> THEN <<x>>
    ELSE IF key_before(x, Head(sorted)) THEN <<x>> \o sorted
    ELSE <<Head(sorted)>> \o insert_sorted(Tail(sorted), x)

\* a variant of sort_scored that keeps one of several equal records
RECURSIVE sort_distinct(_)
sort_distinct(scored) ==
    IF scored = <<>> THEN <<>>
    ELSE IF InSeq(scored[Len(scored)], SubSeq(scored, 1, Len(scored) - 1))
    THEN sort_distinct(SubSeq(scored, 1, Len(scored) - 1))
    ELSE insert_sorted(sort_distinct(SubSeq(scored, 1, Len(scored) - 1)),
                       scored[Len(scored)])

\* list.sort(key=..., reverse=True): stable, descending
RECURSIVE sort_scored(_)
sort_scored(scored) ==
    IF scored = <<>> THEN <<>>
    ELSE insert_sorted(sort_scored(SubSeq(scored, 1, Len(scored) - 1)),
                       scored[Len(scored)])

\* for i, company in enumerate(scored): company.rank = i + 1
assign_ranks(scored) == [i \in 1..Len(scored) |-> [scored[i] EXCEPT !.rank = <<i>>]]

\* the sort and the ranks, unless a call raised
rank_scored(calls, failing) ==
    IF failing # 0
    THEN Raised(calls[failing].raised)
    ELSE Returned(assign_ranks(sort_scored(Map(LAMBDA call : call.value, calls))))

\* the first call of the list that raised, 0 if none did
first_raised(calls) == First({ i \in 1..Len(calls) : calls[i].raised # "" })

\* the list comprehension's calls, then the sort and the ranks
rank_calls(calls) == rank_scored(calls, first_raised(calls))

\* Scorer.score_and_rank
score_and_rank(cs, crit) == rank_calls(Map(LAMBDA company : score(company, crit), cs))

-----------------------------------------------------------------------------
(* app/enrich/dedupe.py                                                    *)

\* CandidateCompany(name=...) with every optional field absent; source and
\* discovered_at, which dedupe.py does not read, are left out
CandidateCompany ==
    [ name           |-> "",
      domain         |-> <<>>,
      website        |-> <<>>,
      description    |-> <<>>,
      industry       |-> <<>>,
      location       |-> <<>>,
      employee_count |-> <<>> ]

\* s.find(sub) + 1: the 1-based place of the first occurrence, 0 if none
Find(s, sub) ==
    First({ i \in 1..(Len(s) - Len(sub) + 1) : SubSeq(s, i, i + Len(sub) - 1) = sub })

\* s.split(sep)[0]
BeforeFirst(s, sep) ==
    IF Find(s, sep) = 0 THEN s ELSE SubSeq(s, 1, Find(s, sep) - 1)

\* s[n:]
From(s, n) == SubSeq(s, n + 1, Len(s))

startswith(s, prefix) == Len(s) >= Len(prefix) /\ SubSeq(s, 1, Len(prefix)) = prefix

endswith(s, suffix) ==
    Len(s) >= Len(suffix) /\ SubSeq(s, Len(s) - Len(suffix) + 1, Len(s)) = suffix

\* urlparse(url).netloc or urlparse(url).path, for a url that has "://"
\* after a well-formed scheme; rest is what follows "://"
netloc_or_path(rest) ==
    IF BeforeFirst(BeforeFirst(BeforeFirst(rest, "/"), "?"), "#") # ""
    THEN BeforeFirst(BeforeFirst(BeforeFirst(rest, "/"), "?"), "#")
    ELSE BeforeFirst(BeforeFirst(rest, "?"), "#")

\* the www prefix is removed
without_www(domain) == IF startswith(domain, "www.") THEN From(domain, 4) ELSE domain

\* Deduplicator.normalize_domain
normalize_domain(domain) ==
    IF domain = "" THEN ""
    ELSE BeforeFirst(
           BeforeFirst(
             without_www(strip(lower(
               IF Find(domain, "://") # 0
               THEN netloc_or_path(From(domain, Find(domain, "://") + 2))
               ELSE domain))),
             "/"),
           ":")

\* whether name ends with white space (after the comma, if any) and w
has_suffix(name, w, comma) ==
    /\ endswith(name, w)
    /\ rstrip(SubSeq(name, 1, Len(name) - Len(w))) # SubSeq(name, 1, Len(name) - Len(w))
    /\ endswith(rstrip(SubSeq(name, 1, Len(name) - Len(w))), comma)

\* the name without the ending w, the white space before it and the comma
cut_suffix(name, w, comma) ==
    SubSeq(name, 1, Len(rstrip(SubSeq(name, 1, Len(name) - Len(w)))) - Len(comma))

\* re.sub(r"\s+(w1|w2|...)$", "", name), the pattern starting with the
\* comma if one is given; no two of the endings can both follow white space
strip_suffix(name, endings, comma) ==
    IF \E w \in endings : has_suffix(name, w, comma)
    THEN cut_suffix(name, CHOOSE w \in endings : has_suffix(name, w, comma), comma)
    ELSE name

\* re.sub(r"[^\w\s]", "", name)
RECURSIVE word_and_space(_)
word_and_space(s) ==
    IF s = "" THEN ""
    ELSE (IF IsWordChar(Head(s)) \/ IsSpace(Head(s)) THEN Head(s) ELSE "")
         \o word_and_space(Tail(s))

\* the number of characters of t before its first white space
word_length(t) ==
    IF \E i \in 1..Len(t) : IsSpace(SubSeq(t, i, i))
    THEN First({ i \in 1..Len(t) : IsSpace(SubSeq(t, i, i)) }) - 1
    ELSE Len(t)

\* " ".join(name.split())
RECURSIVE single_spaced(_)
single_spaced(s) ==
    IF lstrip(s) = "" THEN ""
    ELSE SubSeq(lstrip(s), 1, word_length(lstrip(s)))
         \o (IF lstrip(From(lstrip(s), word_length(lstrip(s)))) = "" THEN ""
             ELSE " " \o single_spaced(From(lstrip(s), word_length(lstrip(s)))))

\* Deduplicator._normalize_name
_normalize_name(name) ==
    single_spaced(word_and_space(
        strip_suffix(
            strip_suffix(
                strip_suffix(strip(lower(name)),
                             { "inc", "inc.", "llc", "ltd", "ltd.", "corp", "corp.",
                               "co", "co.", "company" }, ""),
                { "incorporated", "limited", "corporation" }, ""),
            { "inc", "inc.", "llc", "ltd", "ltd." }, ",")))

\* the length of the longest common run of a from i and b from j, inside
\* a[..ahi] and b[..bhi] (1-based, inclusive)
run_length(a, i, ahi, b, j, bhi) ==
    Max(0, First({ k \in 1..(Min(ahi - i, bhi - j) + 2) :
                     \/ k > Min(ahi - i, bhi - j) + 1
                     \/ SubSeq(a, i + k - 1, i + k - 1) # SubSeq(b, j + k - 1, j + k - 1) })
           - 1)

\* whether block x = <<i, j, k>> is preferred to block y: longer, else
\* earlier in a, else earlier in b
better_block(x, y) ==
    \/ x[3] > y[3]
    \/ x[3] = y[3] /\ x[1] < y[1]
    \/ x[3] = y[3] /\ x[1] = y[1] /\ x[2] <= y[2]

\* SequenceMatcher.find_longest_match(alo, ahi, blo, bhi) without junk
find_longest_match(a, alo, ahi, b, blo, bhi) ==
    CHOOSE x \in { <<i, j, run_length(a, i, ahi, b, j, bhi)>> : i \in alo..ahi, j \in blo..bhi } :
        \A y \in { <<i, j, run_length(a, i, ahi, b, j, bhi)>> : i \in alo..ahi, j \in blo..bhi } :
            better_block(x, y)

\* the total size of the matching blocks of a[alo..ahi] and b[blo..bhi]:
\* the longest block and, recursively, the blocks to its left and right
RECURSIVE matching_size(_, _, _, _, _, _)
blocks_around(a, alo, ahi, b, blo, bhi, x) ==
    IF x[3] = 0 THEN 0
    ELSE x[3]
         + matching_size(a, alo, x[1] - 1, b, blo, x[2] - 1)
         + matching_size(a, x[1] + x[3], ahi, b, x[2] + x[3], bhi)

matching_size(a, alo, ahi, b, blo, bhi) ==
    IF alo > ahi \/ blo > bhi THEN 0
    ELSE blocks_around(a, alo, ahi, b, blo, bhi,
                       find_longest_match(a, alo, ahi, b, blo, bhi))

\* SequenceMatcher(None, name1, name2).ratio() = 2.0 * matches / length
ratio(name1, name2) ==
    IF Len(name1) + Len(name2) = 0 THEN One
    ELSE Q(2 * matching_size(name1, 1, Len(name1), name2, 1, Len(name2)),
           Len(name1) + Len(name2))

\* Deduplicator.name_similarity_threshold
name_similarity_threshold == Q(85, 100)

\* Deduplicator._names_match
_names_match(name1, name2) ==
    \/ name1 = name2
    \/ Contains(name2, name1)
    \/ Contains(name1, name2)
    \/ RLe(name_similarity_threshold, ratio(name1, name2))

\* Deduplicator._merge_candidate: existing after the call
_merge_candidate(existing, new) ==
    [ existing EXCEPT
        !.domain = IF ~TruthyStr(@) /\ TruthyStr(new.domain) THEN new.domain ELSE @,
        !.website = IF ~TruthyStr(@) /\ TruthyStr(new.website) THEN new.website ELSE @,
        !.description =
            IF ~TruthyStr(@) /\ TruthyStr(new.description) THEN new.description ELSE @,
        !.industry = IF ~TruthyStr(@) /\ TruthyStr(new.industry) THEN new.industry ELSE @,
        !.location = IF ~TruthyStr(@) /\ TruthyStr(new.location) THEN new.location ELSE @,
        !.employee_count =
            IF ~Truthy(@) /\ Truthy(new.employee_count) THEN new.employee_count ELSE @ ]

\* The loop state of deduplicate. The candidates are objects shared by the
\* input list, the two dicts and the result, so they are kept in one list
\* and the dicts and the result refer to them by their place in it:
\* seen_domains and seen_names are lists of <<key, place>> in insertion order.
LoopStart(candidates) ==
    [ candidates   |-> candidates,
      seen_domains |-> <<>>,
      seen_names   |-> <<>>,
      result       |-> <<>> ]

\* the place registered under the key, 0 if the key is not in the dict
Lookup(dict, key) ==
    First({ dict[k][2] : k \in { k \in 1..Len(dict) : dict[k][1] = key } })

\* the place of the first seen name that matches, 0 if none does
matching_name(seen_names, normalized_name) ==
    IF \E k \in 1..Len(seen_names) : _names_match(normalized_name, seen_names[k][1])
    THEN seen_names[First({ k \in 1..Len(seen_names) :
                              _names_match(normalized_name, seen_names[k][1]) })][2]
    ELSE 0

\* self._merge_candidate(existing, candidate), on the shared objects
merged_into(st, existing, i) ==
    [ st EXCEPT !.candidates[existing] = _merge_candidate(@, st.candidates[i]) ]

\* lines 43-56: the fuzzy name check for candidate i; m is the place of the
\* matching seen candidate, or 0
check_name(st, i, normalized_name, m) ==
    IF m # 0 THEN merged_into(st, m, i)
    ELSE [ st EXCEPT !.seen_names = Append(@, <<normalized_name, i>>),
                     !.result = Append(@, i) ]

\* a variant of check_domain that runs the name check only
check_name_only(st, i) ==
    check_name(st, i, _normalize_name(st.candidates[i].name),
               matching_name(st.seen_names, _normalize_name(st.candidates[i].name)))

\* lines 34-56: the domain check, then the name check
check_domain(st, i) ==
    IF TruthyStr(st.candidates[i].domain)
    THEN IF Lookup(st.seen_domains, st.candidates[i].domain[1]) # 0
         THEN merged_into(st, Lookup(st.seen_domains, st.candidates[i].domain[1]), i)
         ELSE check_name([ st EXCEPT !.seen_domains =
                                         Append(@, <<st.candidates[i].domain[1], i>>) ],
                         i, _normalize_name(st.candidates[i].name),
                         matching_name(st.seen_names,
                                       _normalize_name(st.candidates[i].name)))
    ELSE check_name(st, i, _normalize_name(st.candidates[i].name),
                    matching_name(st.seen_names, _normalize_name(st.candidates[i].name)))

\* one iteration of the loop: the domain of candidate i is normalised in
\* place, then the checks run
iteration(st, i) ==
    check_domain(
        IF TruthyStr(st.candidates[i].domain)
        THEN [ st EXCEPT !.candidates[i].domain = << normalize_domain(@[1]) >> ]
        ELSE st,
        i)

RECURSIVE loop_from(_, _)
loop_from(st, i) ==
    IF i > Len(st.candidates) THEN st ELSE loop_from(iteration(st, i), i + 1)

\* Deduplicator.deduplicate: the loop state at the return
deduplicate(candidates) == loop_from(LoopStart(candidates), 1)

-----------------------------------------------------------------------------
(* The calls.                                                              *)

Finish(o, a, r) ==
    /\ pc = "idle"
    /\ pc' = "done"
    /\ op' = o
    /\ arg' = a
    /\ result' = r
    /\ UNCHANGED <<criteria, companies, active_searches, tasks, search_runs>>

CallApply ==
    \E i \in 1..Len(companies) :
        Finish("apply", i, Returned(apply(companies[i], criteria)))

CallQuickFilter ==
    \E i \in 1..Len(companies) :
        Finish("quick_filter", i, Returned(quick_filter(companies[i], criteria)))

CallScore ==
    \E i \in 1..Len(companies) :
        Finish("score", i, score(companies[i], criteria))

CallScoreAndRank ==
    Finish("score_and_rank", 0, score_and_rank(companies, criteria))

Next == CallApply \/ CallQuickFilter \/ CallScore \/ CallScoreAndRank

\* the end of a deduplicate call: the candidate objects are left as the loop
\* changed them and the returned list is given by their places
FinishDeduplicate(candidates, st) ==
    /\ pc = "idle"
    /\ pc' = "done"
    /\ op' = "deduplicate"
    /\ arg' = candidates
    /\ companies' = st.candidates
    /\ result' = Returned(st.result)
    /\ UNCHANGED <<criteria, active_searches, tasks, search_runs>>

\* Deduplicator.deduplicate on the candidate list; arg keeps the list as it
\* was passed
CallDeduplicate == FinishDeduplicate(companies, deduplicate(companies))

NextDedupe == CallDeduplicate

-----------------------------------------------------------------------------
(* app/api/routes.py: the search runs.                                     *)
(* run_search is a coroutine: between two awaits it runs without any other *)
(* handler or task in between.  It awaits the connector search and the     *)
(* enrichment; scoring and the database save are plain calls.              *)

\* the dict start_search stores under the run_id; the keys total_found and
\* error are absent until run_search sets them.  The criteria of the request
\* are the variable criteria; use_mock and limit only choose and limit the
\* connector, whose outcome is left open
NewSearch ==
    [ status |-> "pending", results |-> <<>>, total_found |-> <<>>, error |-> <<>> ]

\* DBSearchRun(run_id=run_id, status="pending", ...), with the DBScore rows
\* that belong to it
DBSearchRun ==
    [ status |-> "pending", total_found |-> 0, total_scored |-> 0,
      error_message |-> <<>>, scores |-> <<>> ]

\* the task background_tasks.add_task(run_search, run_id) queues: where
\* run_search stands, its local candidates, and the exception its except
\* clause caught
NewTask == [ at |-> "queued", candidates |-> <<>>, e |-> <<>> ]

\* no run_search stands between its last await and its return, so that the
\* event loop can run another handler or task
Quiet == \A r \in DOMAIN tasks : tasks[r].at # "save"

\* uuid.uuid4(): an identifier no run has yet
Fresh(run_id) ==
    /\ run_id \notin DOMAIN active_searches
    /\ \A r \in 1..(run_id - 1) : r \in DOMAIN active_searches

\* the response of an API call
Respond(o, a, r) ==
    /\ op' = o
    /\ arg' = a
    /\ result' = r
    /\ UNCHANGED <<criteria, companies, pc>>

\* start_search; the commit of the new row may raise, and then nothing is
\* tracked
start_search(run_id, committed) ==
    /\ Quiet
    /\ Fresh(run_id)
    /\ IF committed
       THEN /\ search_runs' = (run_id :> DBSearchRun) @@ search_runs
            /\ active_searches' = (run_id :> NewSearch) @@ active_searches
            /\ tasks' = (run_id :> NewTask) @@ tasks
            /\ Respond("start_search", run_id,
                       Returned([ run_id |-> run_id, status |-> "pending" ]))
       ELSE /\ UNCHANGED <<search_runs, active_searches, tasks>>
            /\ Respond("start_search", run_id, Raised("OperationalError"))

\* a variant of except_clause that records the error and leaves the status
error_only(tracked, message) == [ tracked EXCEPT !.error = <<message>> ]

\* search["status"] = "failed"; search["error"] = str(e)
except_clause(tracked, message) ==
    [ tracked EXCEPT !.status = "failed", !.error = <<message>> ]

\* the row of the run after the except clause; stored is whether its
\* session found the row and committed, rather than raising in turn
failed_row(row, message, stored) ==
    IF stored
    THEN [ row EXCEPT !.status = "failed", !.error_message = <<message>> ]
    ELSE row

\* run_search from the raise of an exception to its end
Fail(run_id, message, stored) ==
    /\ active_searches' =
           [ active_searches EXCEPT ![run_id] = except_clause(@, message) ]
    /\ search_runs' = [ search_runs EXCEPT ![run_id] = failed_row(@, message, stored) ]
    /\ tasks' = [ tasks EXCEPT ![run_id] =
                    [ at |-> "done", candidates |-> <<>>, e |-> <<message>> ] ]

\* run_search up to `await connector.search(...)`
begin_search(run_id) ==
    /\ Quiet
    /\ run_id \in DOMAIN tasks
    /\ tasks[run_id].at = "queued"
    /\ active_searches' = [ active_searches EXCEPT ![run_id].status = "running" ]
    /\ tasks' = [ tasks EXCEPT ![run_id].at = "search" ]
    /\ UNCHANGED <<search_runs, criteria, companies, pc, op, arg, result>>

\* the list deduplicate returns
kept(st) == [ i \in 1..Len(st.result) |-> st.candidates[st.result[i]] ]

\* the connector returned: total_found, the deduplication, and on to
\* `await enrich_candidates(...)`
search_returns(run_id, found) ==
    /\ Quiet
    /\ run_id \in DOMAIN tasks
    /\ tasks[run_id].at = "search"
    /\ active_searches' =
           [ active_searches EXCEPT ![run_id].total_found = << Len(found) >> ]
    /\ tasks' = [ tasks EXCEPT ![run_id].at = "enrich",
                               ![run_id].candidates = kept(deduplicate(found)) ]
    /\ UNCHANGED <<search_runs, criteria, companies, pc, op, arg, result>>

\* str(e) of what an awaited stage raised
StageError(at) == IF at = "search" THEN "ConnectionError" ELSE "RuntimeError"

\* an awaited stage raised
stage_raises(run_id, stored) ==
    /\ Quiet
    /\ run_id \in DOMAIN tasks
    /\ tasks[run_id].at \in { "search", "enrich" }
    /\ Fail(run_id, StageError(tasks[run_id].at), stored)
    /\ UNCHANGED <<criteria, companies, pc, op, arg, result>>

\* EnrichedCompany(**candidate.model_dump()), the minimal enrichment
\* enrich_candidates falls back to; what the fetched pages add is left out.
\* declared tells whether the object is of the class as candidate.py
\* declares it or of one that also declares the attributes scorer.py reads
enrich(candidate, declared) ==
    IF declared
    THEN [ EnrichedCompany EXCEPT !.name = candidate.name,
                                  !.website = candidate.website ]
    ELSE [ EnrichedCompany EXCEPT !.name = candidate.name,
                                  !.website = candidate.website ] @@ VerticalFields

\* run_search from the return of score_and_rank to the call of
\* _save_results_to_db, or into the except clause if score_and_rank raised
scored_or_failed(run_id, scored, stored) ==
    IF scored.raised # ""
    THEN Fail(run_id, scored.raised, stored)
    ELSE /\ active_searches' =
                [ active_searches EXCEPT ![run_id].results = scored.value,
                                         ![run_id].status = "completed" ]
         /\ tasks' = [ tasks EXCEPT ![run_id].at = "save",
                                    ![run_id].candidates = <<>> ]
         /\ UNCHANGED search_runs

\* the enrichment returned: scoring, the results and the status
enrich_returns(run_id, declared, stored) ==
    /\ Quiet
    /\ run_id \in DOMAIN tasks
    /\ tasks[run_id].at = "enrich"
    /\ scored_or_failed(run_id,
           score_and_rank([ i \in 1..Len(tasks[run_id].candidates) |->
                              enrich(tasks[run_id].candidates[i], declared) ],
                          criteria),
           stored)
    /\ UNCHANGED <<criteria, companies, pc, op, arg, result>>

\* scored.rank or 0, and the fields of ResultItem that tell the records apart
_format_result(scored) ==
    [ rank            |-> IF Truthy(scored.rank) THEN scored.rank[1] ELSE 0,
      name            |-> scored.name,
      fit_score       |-> scored.fit_score,
      confidence      |-> scored.confidence,
      is_disqualified |-> scored.is_disqualified ]

\* _save_results_to_db returned
save_returns(run_id) ==
    /\ run_id \in DOMAIN tasks
    /\ tasks[run_id].at = "save"
    /\ search_runs' = [ search_runs EXCEPT ![run_id] =
                 [ @ EXCEPT !.status = "completed",
                            !.total_found = Len(active_searches[run_id].results),
                            !.total_scored = Len(active_searches[run_id].results),
                            !.scores = Map(_format_result,
                                           active_searches[run_id].results) ] ]
    /\ tasks' = [ tasks EXCEPT ![run_id].at = "done" ]
    /\ UNCHANGED <<active_searches, criteria, companies, pc, op, arg, result>>

\* _save_results_to_db raised
save_raises(run_id, stored) ==
    /\ run_id \in DOMAIN tasks
    /\ tasks[run_id].at = "save"
    /\ Fail(run_id, "IntegrityError", stored)
    /\ UNCHANGED <<criteria, companies, pc, op, arg, result>>

\* StatusResponse of a tracked search
status_response(run_id, tracked) ==
    [ run_id        |-> run_id,
      status        |-> tracked.status,
      total_found   |-> IF tracked.total_found = <<>> THEN 0 ELSE tracked.total_found[1],
      total_scored  |-> Len(tracked.results),
      error_message |-> tracked.error ]

\* get_status
get_status(run_id) ==
    IF run_id \in DOMAIN active_searches
    THEN Returned(status_response(run_id, active_searches[run_id]))
    ELSE IF run_id \in DOMAIN search_runs
    THEN Returned([ run_id        |-> run_id,
                    status        |-> search_runs[run_id].status,
                    total_found   |-> search_runs[run_id].total_found,
                    total_scored  |-> search_runs[run_id].total_scored,
                    error_message |-> search_runs[run_id].error_message ])
    ELSE Raised("HTTPException")

\* ResultsResponse
ResultsResponse(run_id, status, results) ==
    [ run_id |-> run_id, status |-> status,
      total_results |-> Len(results), results |-> results ]

\* get_results for a tracked search
results_response(run_id, tracked) ==
    IF tracked.status \notin { "completed", "failed" }
    THEN ResultsResponse(run_id, tracked.status, <<>>)
    ELSE ResultsResponse(run_id, tracked.status, Map(_format_result, tracked.results))

\* get_results; the DBScore rows of a run are kept formatted, in rank order
get_results(run_id) ==
    IF run_id \in DOMAIN active_searches
    THEN Returned(results_response(run_id, active_searches[run_id]))
    ELSE IF run_id \in DOMAIN search_runs
    THEN Returned(ResultsResponse(run_id, search_runs[run_id].status, search_runs[run_id].scores))
    ELSE Raised("HTTPException")

\* at most MaxRuns searches are started
MaxRuns == 2

RunIds == 1..MaxRuns

StartSearch == \E run_id \in RunIds, committed \in BOOLEAN : start_search(run_id, committed)

\* what the connector finds: nothing, or two entries of one company
FoundLists ==
    { <<>>,
      << [ CandidateCompany EXCEPT !.name = "Acme", !.domain = <<"acme.com">> ],
         [ CandidateCompany EXCEPT !.name = "Acme Inc", !.domain = <<"www.acme.com">>,
                                   !.website = <<"https://acme.com">> ] >> }

\* one step of the background task of a run, from one await to the next
run_search(run_id) ==
    \/ begin_search(run_id)
    \/ \E found \in FoundLists : search_returns(run_id, found)
    \/ \E stored \in BOOLEAN : stage_raises(run_id, stored)
    \/ \E declared \in BOOLEAN, stored \in BOOLEAN :
           enrich_returns(run_id, declared, stored)
    \/ save_returns(run_id)
    \/ \E stored \in BOOLEAN : save_raises(run_id, stored)

RunSearch == \E run_id \in RunIds : run_search(run_id)

CallGetStatus ==
    \E run_id \in RunIds :
        /\ Quiet
        /\ Respond("get_status", run_id, get_status(run_id))
        /\ UNCHANGED <<active_searches, tasks, search_runs>>

CallGetResults ==
    \E run_id \in RunIds :
        /\ Quiet
        /\ Respond("get_results", run_id, get_results(run_id))
        /\ UNCHANGED <<active_searches, tasks, search_runs>>

NextRun == StartSearch \/ RunSearch \/ CallGetStatus \/ CallGetResults

Start(crit, cs) ==
    /\ criteria = crit
    /\ companies = cs
    /\ pc = "idle"
    /\ op = ""
    /\ arg = 0
    /\ result = Returned(<<>>)
    /\ active_searches = << >>
    /\ tasks = << >>
    /\ search_runs = << >>

-----------------------------------------------------------------------------
(* Inputs.                                                                 *)

\* employee, revenue and funding figures range over 0..MaxCount
MaxCount == 2

OptionalCounts == { <<>> } \cup { <<n>> : n \in 0..MaxCount }

\* a company object of a class that declares the vertical attributes
VerticalCompany == EnrichedCompany @@ VerticalFields

\* companies that differ in what the hard filters read
FilterCompanies ==
    { [ VerticalCompany EXCEPT
          !.disqualifiers_detected = dq,
          !.industries = ind,
          !.business_model = bm,
          !.employees_estimate = emp,
          !.headquarters = hq ] :
      dq \in { <<>>, <<"Gambling">>, <<"Gambling", "adult">> },
      ind \in { <<>>, <<"Crypto">>, <<"fintech", "crypto">> },
      bm \in { <<>>, <<"Consulting">>, <<"SaaS">> },
      emp \in OptionalCounts,
      hq \in { <<>>, <<"Berlin, Germany">> } }

\* criteria that disqualify
DisqualifyingCriteria ==
    { [ AcquisitionCriteria EXCEPT
          !.dealbreakers = db,
          !.industries_exclude = ex,
          !.business_model = [ BusinessModelFilter EXCEPT !.exclude_types = et ] ] :
      db \in { <<>>, <<"gambling", "adult">> },
      ex \in { <<>>, <<"CRYPTO">> },
      et \in { <<>>, <<"CONSULTING">> } }

\* the same criteria with one soft constraint or a weight added
WithSoftConstraint(c) ==
    { c,
      [ c EXCEPT !.size = [ SizeConstraints EXCEPT !.employees_min = <<1>> ] ],
      [ c EXCEPT !.size = [ SizeConstraints EXCEPT !.employees_max = <<1>> ] ],
      [ c EXCEPT !.geography = [ GeographyFilter EXCEPT !.countries = <<"Germany">> ] ],
      [ c EXCEPT !.geography = [ GeographyFilter EXCEPT !.countries = <<"France">> ] ],
      [ c EXCEPT !.geography = [ GeographyFilter EXCEPT !.exclude_countries = <<"germany">> ] ],
      [ c EXCEPT !.geography = [ GeographyFilter EXCEPT !.regions = <<"Bavaria">> ] ],
      [ c EXCEPT !.geography = [ GeographyFilter EXCEPT !.countries = <<"Germany">>,
                                                        !.regions = <<"Bavaria">> ] ],
      [ c EXCEPT !.business_model = [ @ EXCEPT !.recurring_revenue_required = TRUE ] ],
      [ c EXCEPT !.weights = [ k \in {"industry"} |-> One ] ] }

FilterCriteria == UNION { WithSoftConstraint(c) : c \in DisqualifyingCriteria }

InitFilter ==
    \E crit \in FilterCriteria, c \in FilterCompanies : Start(crit, <<c>>)

SpecFilter == InitFilter /\ [][Next]_vars

-----------------------------------------------------------------------------
(* Inputs: companies and criteria for the category scores.                 *)

\* the one page of a crawled company
SamplePage ==
    <<"https://acme.io/about",
      "Fintech SaaS; business payments. SOC2, hiring">>

\* the classification the enrichment stage attaches, by kind
Classified(company, kind) ==
    CASE kind = "plain" -> company
      [] kind = "unflagged" -> company @@ VerticalFields
      [] kind = "flagged" ->
            company @@ [ is_cannabis_industry        |-> TRUE,
                         cannabis_confidence         |-> Q(9, 10),
                         software_revenue_confidence |-> Q(7, 10),
                         revenue_is_estimated        |-> TRUE ]

\* business_model and business_model_confidence, by kind; EnrichedCompany
\* accepts any float as business_model_confidence
WithBusinessModel(company, kind) ==
    CASE kind = "unknown" -> company
      [] kind = "saas" ->
            [ company EXCEPT !.business_model = <<"SaaS">>,
                             !.business_model_confidence = Q(4, 5) ]
      [] kind = "overrated" ->
            [ company EXCEPT !.business_model = <<"saas">>,
                             !.business_model_confidence = Q(3, 2) ]

\* customer types, compliance indicators and signals, detected together or
\* not at all
WithIndicators(company, detected) ==
    IF detected
    THEN [ company EXCEPT !.customer_types = <<"B2B", "SMB">>,
                          !.compliance_indicators = <<"SOC2">>,
                          !.signals_detected = <<"growing_team", "recent_funding">> ]
    ELSE company

\* the crawled page and the confidence of its extraction
WithPage(company, crawled) ==
    IF crawled
    THEN [ company EXCEPT !.page_contents = <<SamplePage>>,
                          !.extraction_confidence = Q(1, 2) ]
    ELSE company

BusinessModelKinds == {"unknown", "saas", "overrated"}
ClassificationKinds == {"plain", "unflagged", "flagged"}

\* companies that differ in what the eight category scores read
ScoringCompanies ==
    { Classified(
        WithPage(
          WithIndicators(
            WithBusinessModel(
              [ EnrichedCompany EXCEPT
                  !.industries = ind,
                  !.headquarters = hq,
                  !.employees_estimate = emp ],
              bm),
            detected),
          crawled),
        kind) :
      ind \in { <<>>, <<"Fintech">>, <<"fintech", "Cannabis", "FinTech">> },
      hq \in { <<>>, <<"Berlin, Germany">> },
      emp \in OptionalCounts,
      bm \in BusinessModelKinds,
      detected \in BOOLEAN,
      crawled \in BOOLEAN,
      kind \in ClassificationKinds }

\* the criteria with the requirement of one category set
Require(crit, category) ==
    CASE category = "industry" ->
            [ crit EXCEPT !.industries_include = <<"FinTech", "cannabis">> ]
      [] category = "keyword" ->
            [ crit EXCEPT !.keywords_include = <<"payments", "blockchain">> ]
      [] category = "business_model" ->
            [ crit EXCEPT !.business_model = [ @ EXCEPT !.types = <<"SaaS">> ] ]
      [] category = "customer_type" ->
            [ crit EXCEPT !.customer_type = <<"B2B", "enterprise">> ]
      [] category = "geography" ->
            [ crit EXCEPT !.geography = [ @ EXCEPT !.countries = <<"Germany">> ] ]
      [] category = "size" ->
            [ crit EXCEPT !.size = [ @ EXCEPT !.employees_min = <<1>>,
                                              !.employees_max = <<1>> ] ]
      [] category = "compliance" ->
            [ crit EXCEPT !.compliance_tags = <<"SOC2", "HIPAA">> ]
      [] category = "signals" ->
            [ crit EXCEPT !.preferred_signals = <<"growing_team">> ]

\* the criteria with the requirement of one category removed
Release(crit, category) ==
    CASE category = "industry" -> [ crit EXCEPT !.industries_include = <<>> ]
      [] category = "keyword" -> [ crit EXCEPT !.keywords_include = <<>> ]
      [] category = "business_model" ->
            [ crit EXCEPT !.business_model = [ @ EXCEPT !.types = <<>> ] ]
      [] category = "customer_type" -> [ crit EXCEPT !.customer_type = <<>> ]
      [] category = "geography" -> [ crit EXCEPT !.geography = GeographyFilter ]
      [] category = "size" -> [ crit EXCEPT !.size = SizeConstraints ]
      [] category = "compliance" -> [ crit EXCEPT !.compliance_tags = <<>> ]
      [] category = "signals" -> [ crit EXCEPT !.preferred_signals = <<>> ]

CategorySet == { Categories[i] : i \in 1..Len(Categories) }

\* criteria with a requirement in every category
RECURSIVE RequireAll(_, _)
RequireAll(crit, cats) ==
    IF cats = <<>> THEN crit ELSE RequireAll(Require(crit, Head(cats)), Tail(cats))

FullCriteria == RequireAll(AcquisitionCriteria, Categories)

\* no requirement, every requirement, one requirement, all but one, and
\* every requirement under a negative weight
ScoringCriteria ==
    { AcquisitionCriteria, FullCriteria,
      [ FullCriteria EXCEPT !.weights = [ k \in {"industry"} |-> Q(-1, 1) ] ] }
    \cup { Require(AcquisitionCriteria, c) : c \in CategorySet }
    \cup { Release(FullCriteria, c) : c \in CategorySet }

Init ==
    \E crit \in ScoringCriteria, c \in ScoringCompanies : Start(crit, <<c>>)

Spec == Init /\ [][Next]_vars

-----------------------------------------------------------------------------
(* Inputs: weights maps.                                                   *)

\* the categories whose weight the criteria may override
WeightedCategories == {"industry", "size"}
WeightValues == { Zero, Q(3, 10), One }

\* weights maps over some of the categories, the all-zero map and a map whose
\* weights exceed 1
WeightMaps ==
    UNION { [K -> WeightValues] : K \in SUBSET WeightedCategories }
    \cup { [c \in CategorySet |-> Zero], [c \in {"business_model"} |-> Q(2, 1)] }

\* every requirement, the same with a country no company is in, and none
WeightCriteria ==
    { [ crit EXCEPT !.weights = w ] :
        crit \in { AcquisitionCriteria, FullCriteria,
                   [ FullCriteria EXCEPT !.geography =
                       [ GeographyFilter EXCEPT !.countries = <<"France">> ] ] },
        w \in WeightMaps }

\* the companies score returns a record for
WeightCompanies ==
    { c \in ScoringCompanies :
        CarriesVerticalFields(c) /\ InUnit(c.business_model_confidence) }

InitWeights ==
    \E crit \in WeightCriteria, c \in WeightCompanies : Start(crit, <<c>>)

SpecWeights == InitWeights /\ [][Next]_vars

-----------------------------------------------------------------------------
(* Inputs: batches for score_and_rank.                                     *)

\* a batch holds at most MaxBatch companies
MaxBatch == 3

\* a well-described company
Acme ==
    Classified(
      WithPage(
        WithIndicators(
          WithBusinessModel(
            [ EnrichedCompany EXCEPT !.name = "Acme",
                                     !.industries = <<"Fintech">>,
                                     !.headquarters = <<"Berlin, Germany">>,
                                     !.employees_estimate = <<1>> ],
            "saas"),
          TRUE),
        TRUE),
      "flagged")

\* a company known by name only
Core == [ VerticalCompany EXCEPT !.name = "Core" ]

\* Acme; Core; Core with a confident extraction, under two names; Acme with
\* a detected dealbreaker; an EnrichedCompany as the class declares it
Profiles ==
    { Acme,
      Core,
      [ Core EXCEPT !.name = "Dyne", !.extraction_confidence = Q(9, 10) ],
      [ Core EXCEPT !.name = "Bolt", !.extraction_confidence = Q(9, 10) ],
      [ Acme EXCEPT !.name = "Echo", !.disqualifiers_detected = <<"gambling">> ],
      [ EnrichedCompany EXCEPT !.name = "Fern" ] }

Batches == UNION { [1..n -> Profiles] : n \in 0..MaxBatch }

\* every requirement and a dealbreaker
RankCriteria == [ FullCriteria EXCEPT !.dealbreakers = <<"gambling">> ]

InitRank == \E cs \in Batches : Start(RankCriteria, cs)

SpecRank == InitRank /\ [][Next]_vars

-----------------------------------------------------------------------------
(* Inputs: the reference scenario of tests/test_scoring.py.                *)

\* make_criteria(): the weights of the reference criteria
ReferenceWeights ==
    [ c \in {"industry", "business_model", "customer_type", "keyword"} |-> Q(25, 100) ]

\* the reference criteria as the specification lists them: keywords_include
\* is left at its default
ListedCriteria ==
    [ AcquisitionCriteria EXCEPT
        !.industries_include = <<"healthcare tech">>,
        !.business_model = [ BusinessModelFilter EXCEPT !.types = <<"SaaS">> ],
        !.customer_type = <<"B2B">>,
        !.weights = ReferenceWeights ]

\* make_criteria(): the same with keywords_include = ["SaaS", "B2B"]
make_criteria == [ ListedCriteria EXCEPT !.keywords_include = <<"SaaS", "B2B">> ]

\* a page that mentions both reference keywords
ReferencePage == <<"https://testcompany.com", "A B2B SaaS suite">>

\* make_company(business_model=..., customer_types=..., industries=...)
make_company(bm, ct, ind) ==
    [ EnrichedCompany EXCEPT
        !.business_model = <<bm>>,
        !.business_model_confidence = Q(9, 10),
        !.customer_types = ct,
        !.industries = ind ]

\* the reference companies, as declared and carrying the vertical
\* attributes, without and with a crawled page
ReferenceCompanies ==
    { Classified([ make_company(bm, ct, ind) EXCEPT !.page_contents = pages ], kind) :
        bm \in { "SaaS", "services" },
        ct \in { <<"B2B">>, <<"B2C">>, <<>> },
        ind \in { <<"healthcare tech">>, <<"retail">>, <<>> },
        pages \in { <<>>, <<ReferencePage>> },
        kind \in { "plain", "unflagged" } }

InitReference ==
    \E crit \in { ListedCriteria, make_criteria }, c \in ReferenceCompanies :
        Start(crit, <<c>>)

SpecReference == InitReference /\ [][Next]_vars

-----------------------------------------------------------------------------
(* Inputs: long page texts and a long criterion value.                     *)

\* the string s * n
RECURSIVE Repeat(_, _)
Repeat(s, n) == IF n = 0 THEN "" ELSE s \o Repeat(s, n - 1)

\* a criterion value of 37 characters
LongKeyword == "enterprise resource planning software"

\* a page with more than CONTEXT_CHARS characters on either side of the value
LongPage ==
    << "https://acme.io/product",
       Repeat("lorem ipsum ", 8) \o LongKeyword \o Repeat(" dolor sit", 9) >>

\* a page that starts with the value
LeadPage == << "https://acme.io/", LongKeyword \o Repeat(" dolor sit", 9) >>

SnippetCompanies ==
    { Classified([ EnrichedCompany EXCEPT !.industries = ind, !.page_contents = pages ],
                 kind) :
        ind \in { <<>>, <<LongKeyword>> },
        pages \in { <<>>, <<SamplePage>>, <<LongPage>>, <<LeadPage>>,
                    <<SamplePage, LongPage>> },
        kind \in { "plain", "unflagged" } }

SnippetCriteria ==
    { [ AcquisitionCriteria EXCEPT !.industries_include = ind, !.keywords_include = kws ] :
        ind \in { <<>>, <<LongKeyword>> },
        kws \in { <<>>, <<"payments">>, <<LongKeyword>>, <<"payments", LongKeyword>> } }

InitSnippet ==
    \E crit \in SnippetCriteria, c \in SnippetCompanies : Start(crit, <<c>>)

SpecSnippet == InitSnippet /\ [][Next]_vars

-----------------------------------------------------------------------------
(* Inputs: companies that differ in what the match summary reads.          *)

\* the vertical attributes, each on or off
VerticalKinds ==
    { [ is_cannabis_industry        |-> cannabis,
        cannabis_confidence         |-> IF cannabis THEN Q(9, 10) ELSE Zero,
        software_revenue_confidence |-> software,
        revenue_is_estimated        |-> estimated ] :
        cannabis \in BOOLEAN, software \in { Q(3, 10), Q(7, 10) }, estimated \in BOOLEAN }

SummaryCompanies ==
    { [ WithIndicators(WithBusinessModel(EnrichedCompany, bm), detected) EXCEPT
          !.industries = ind,
          !.employees_estimate = emp,
          !.revenue_estimate = revenue ] @@ vertical :
        bm \in { "unknown", "saas" },
        detected \in BOOLEAN,
        ind \in { <<>>, <<"fintech", "Cannabis", "FinTech">> },
        emp \in { <<>>, <<0>>, <<1>> },
        revenue \in { <<>>, <<0>>, <<2000000>> },
        vertical \in VerticalKinds \cup { << >> } }

InitSummary ==
    \E crit \in { AcquisitionCriteria, FullCriteria }, c \in SummaryCompanies :
        Start(crit, <<c>>)

SpecSummary == InitSummary /\ [][Next]_vars

-----------------------------------------------------------------------------
(* Inputs: candidate lists for deduplicate.                                *)

\* a candidate list holds at most MaxCandidates candidates
MaxCandidates == 3

\* candidates that share domains under different spellings, names that
\* match after normalisation ("Acme", "Acme Inc") or by similarity ("Zeta",
\* "Zetta"), and names that match nothing
Candidates ==
    { [ CandidateCompany EXCEPT !.name = "Acme" ],
      [ CandidateCompany EXCEPT !.name = "Acme Inc",
                                !.domain = <<"www.Acme.com">>,
                                !.website = <<"https://acme.com">>,
                                !.employee_count = <<12>> ],
      [ CandidateCompany EXCEPT !.name = "Zeta",
                                !.domain = <<"https://acme.com/about">>,
                                !.description = <<"Zeta apps">>,
                                !.location = <<"Oslo">> ],
      [ CandidateCompany EXCEPT !.name = "Zetta",
                                !.domain = <<"zeta.io">>,
                                !.industry = <<"fintech">> ],
      [ CandidateCompany EXCEPT !.name = "Beta",
                                !.domain = <<"beta.io:8080">>,
                                !.description = <<"Beta tools">> ],
      [ CandidateCompany EXCEPT !.name = "Acme",
                                !.domain = <<"acme.com">>,
                                !.description = <<"Acme tools">>,
                                !.employee_count = <<0>> ] }

CandidateLists == UNION { [1..n -> Candidates] : n \in 0..MaxCandidates }

InitDedupe == \E cs \in CandidateLists : Start(AcquisitionCriteria, cs)

SpecDedupe == InitDedupe /\ [][NextDedupe]_vars

-----------------------------------------------------------------------------
(* Inputs: industry lists and classification signals.                      *)

\* a company with the attributes the enrichment parser computes
\* (parser.py:264-289: both confidences lie in [0,1])
WithVertical(company, flag, cannabis, software) ==
    company @@ [ is_cannabis_industry        |-> flag,
                 cannabis_confidence         |-> cannabis,
                 software_revenue_confidence |-> software,
                 revenue_is_estimated        |-> FALSE ]

\* industry lists with a repeated label, differently cased labels and labels
\* no criteria ask for
IndustryLists ==
    { <<>>, <<"Fintech">>, <<"fintech", "FinTech">>, <<"retail", "Cannabis">>,
      <<"retail">> }

\* the flag with its confidence, and the software revenue confidence
VerticalSignals ==
    { <<FALSE, Zero, Zero>>, <<FALSE, Zero, Q(6, 10)>>, <<TRUE, Q(3, 10), Q(1, 2)>>,
      <<TRUE, Q(9, 10), Q(7, 10)>> }

BusinessModels ==
    { <<<<>>, Zero>>, <<<<"SaaS">>, Q(4, 5)>>, <<<<"saas">>, Q(2, 5)>>,
      <<<<"services">>, Q(9, 10)>> }

CategoryCompanies ==
    { WithVertical([ EnrichedCompany EXCEPT !.industries = ind,
                                            !.business_model = bm[1],
                                            !.business_model_confidence = bm[2] ],
                   v[1], v[2], v[3]) :
      ind \in IndustryLists, v \in VerticalSignals, bm \in BusinessModels }

\* criteria that list industries, with and without the vertical, and
\* business-model types
CategoryCriteria ==
    { [ AcquisitionCriteria EXCEPT
          !.industries_include = inc,
          !.business_model = [ BusinessModelFilter EXCEPT !.types = types ] ] :
      inc \in { <<>>, <<"FinTech">>, <<"FinTech", "cannabis">>,
                <<"Cannabis Tech", "fintech", "retail">> },
      types \in { <<>>, <<"SaaS">> } }

InitCategory ==
    \E crit \in CategoryCriteria, c \in CategoryCompanies : Start(crit, <<c>>)

SpecCategory == InitCategory /\ [][Next]_vars

-----------------------------------------------------------------------------
(* Inputs: sizes and size bounds.                                          *)

\* companies whose three size figures are absent or range over 0..MaxCount
SizeCompanies ==
    { [ VerticalCompany EXCEPT !.employees_estimate = emp,
                               !.revenue_estimate = rev,
                               !.funding_total = fund ] :
      emp \in OptionalCounts, rev \in OptionalCounts, fund \in OptionalCounts }

\* (min, max) pairs: no bound, one bound, both, and bounds of 0
BoundPairs ==
    { <<<<>>, <<>>>>, <<<<1>>, <<>>>>, <<<<>>, <<1>>>>, <<<<1>>, <<2>>>>,
      <<<<0>>, <<>>>>, <<<<>>, <<0>>>> }

\* size constraints on some or all of the three dimensions
SizeCriteria ==
    { [ AcquisitionCriteria EXCEPT !.size =
          [ employees_min |-> e[1], employees_max |-> e[2],
            revenue_min   |-> r[1], revenue_max   |-> r[2],
            funding_min   |-> f[1], funding_max   |-> f[2] ] ] :
      e \in BoundPairs,
      r \in { <<<<>>, <<>>>>, <<<<2>>, <<>>>>, <<<<1>>, <<1>>>> },
      f \in { <<<<>>, <<>>>>, <<<<>>, <<1>>>> } }

InitSize == \E crit \in SizeCriteria, c \in SizeCompanies : Start(crit, <<c>>)

SpecSize == InitSize /\ [][Next]_vars

-----------------------------------------------------------------------------
(* Inputs: page texts and keyword lists.                                   *)

HomePage == <<"https://acme.io/", "Payments for SaaS teams">>
JobsPage == <<"https://acme.io/jobs", "We are hiring. Repayments">>

\* companies with no page, one page or two pages in either order
KeywordCompanies ==
    { [ VerticalCompany EXCEPT !.page_contents = pages, !.website = site ] :
      pages \in { <<>>, <<HomePage>>, <<JobsPage>>, <<HomePage, JobsPage>>,
                  <<JobsPage, HomePage>> },
      site \in { <<>>, <<"https://acme.io">> } }

\* keyword lists: keywords in another case than the text, a keyword that is
\* only part of a word of the text, a keyword that would span two pages, the
\* same keyword twice, and the same keyword in two spellings
KeywordLists ==
    { <<>>, <<"payments", "blockchain">>, <<"PAYMENTS", "pay", "hiring">>,
      <<"saas", "SaaS">>, <<"hiring", "hiring">>, <<"teams we">>,
      <<"repayments", "saas", "hiring", "payments">> }

KeywordCriteria ==
    { [ AcquisitionCriteria EXCEPT !.keywords_include = kws ] : kws \in KeywordLists }

InitKeyword ==
    \E crit \in KeywordCriteria, c \in KeywordCompanies : Start(crit, <<c>>)

SpecKeyword == InitKeyword /\ [][Next]_vars

-----------------------------------------------------------------------------
(* Inputs: pairs of companies that match more or fewer of the criteria.    *)

\* a company named after what it matches
Matching(name, ind, bm, emp, dq) ==
    [ VerticalCompany EXCEPT !.name = name,
                             !.industries = ind,
                             !.business_model = <<bm>>,
                             !.business_model_confidence = Q(9, 10),
                             !.employees_estimate = emp,
                             !.disqualifiers_detected = dq ]

\* the three companies of test_rank_companies, a company that matches the
\* size only, one that matches one of two industries, and one with a detected
\* dealbreaker
PairProfiles ==
    { Matching("Low Match", <<"other">>, "services", <<>>, <<>>),
      Matching("Medium Match", <<"other">>, "SaaS", <<>>, <<>>),
      Matching("High Match", <<"fintech", "cannabis">>, "SaaS", <<>>, <<>>),
      Matching("Size Match", <<"other">>, "services", <<1>>, <<>>),
      Matching("Industry Match", <<"fintech">>, "services", <<>>, <<>>),
      Matching("Dealbreaker", <<"fintech", "cannabis">>, "SaaS", <<1>>, <<"gambling">>) }

Pairs == [1..2 -> PairProfiles]

\* every requirement and a dealbreaker, under the default weights, with a
\* category of weight 0, with all weight on one category, with no weight at
\* all and with a negative weight
PairCriteria ==
    { [ RankCriteria EXCEPT !.weights = w ] :
        w \in { << >>,
                [ c \in {"size"} |-> Zero ],
                [ c \in {"industry", "size"} |-> IF c = "size" THEN Zero ELSE One ],
                [ c \in CategorySet |-> IF c = "business_model" THEN One ELSE Zero ],
                [ c \in CategorySet |-> Zero ],
                [ c \in {"industry"} |-> Q(-1, 10) ] } }

InitPairs == \E crit \in PairCriteria, cs \in Pairs : Start(crit, cs)

SpecPairs == InitPairs /\ [][Next]_vars

-----------------------------------------------------------------------------
(* The search runs: no search is started yet.                              *)

InitRun ==
    /\ Start(AcquisitionCriteria, <<>>)

SpecRun == InitRun /\ [][NextRun]_vars

\* the event loop runs every queued task, and every stage a task awaits
\* returns or raises
SpecRunLive ==
    InitRun /\ [][NextRun]_vars /\ \A run_id \in RunIds : WF_vars(run_search(run_id))

-----------------------------------------------------------------------------
(* Properties.                                                             *)

\* a call has returned a value
Done(o) == pc = "done" /\ op = o /\ result.raised = ""

\* the company the finished call was about
Subject == companies[arg]

\* the records a finished score or score_and_rank call returned
ReturnedRecords ==
    IF Done("score") THEN { result.value }
    ELSE IF Done("score_and_rank") THEN { result.value[i] : i \in 1..Len(result.value) }
    ELSE {}

\* disqualifiers_detected shares a label with criteria.dealbreakers
SharesDealbreaker(company, crit) ==
    \E i \in 1..Len(company.disqualifiers_detected), j \in 1..Len(crit.dealbreakers) :
        company.disqualifiers_detected[i] = crit.dealbreakers[j]

\* an industry of the company equals an excluded industry, case-insensitively
InExcludedIndustry(company, crit) ==
    \E i \in 1..Len(company.industries), j \in 1..Len(crit.industries_exclude) :
        lower(company.industries[i]) = lower(crit.industries_exclude[j])

\* the business model equals an excluded type, case-insensitively
HasExcludedBusinessModel(company, crit) ==
    /\ company.business_model # <<>>
    /\ \E j \in 1..Len(crit.business_model.exclude_types) :
           lower(company.business_model[1]) = lower(crit.business_model.exclude_types[j])

\* C1: every ScoredCompany that score or score_and_rank returns with
\* is_disqualified = true has fit_score = 0, whatever the weighted category
\* score computed for it was; a company whose disqualifiers_detected shares
\* a label with criteria.dealbreakers is returned disqualified with fit_score 0.
C1_DisqualifiedScoresZero ==
    /\ \A r \in ReturnedRecords : r.is_disqualified => r.fit_score = Zero
    /\ (Done("score") /\ SharesDealbreaker(Subject, criteria))
           => (result.value.is_disqualified /\ result.value.fit_score = Zero)

\* a disqualified record whose computed weighted score was positive
C1_Witness ==
    /\ Done("score")
    /\ SharesDealbreaker(Subject, criteria)
    /\ result.value.is_disqualified
    /\ RLt(Zero, _calculate_fit_score(result.value.score_breakdown, criteria))
    /\ result.value.fit_score = Zero

\* C2: HardFilters.apply sets is_disqualified exactly when a detected
\* disqualifier is a dealbreaker, or an industry equals an excluded industry
\* case-insensitively, or the business model equals an excluded type
\* case-insensitively; weights, size bounds, geography and the
\* recurring-revenue requirement play no part.
C2_DisqualifiedIff ==
    Done("apply") =>
        (result.value.is_disqualified <=>
            \/ SharesDealbreaker(Subject, criteria)
            \/ InExcludedIndustry(Subject, criteria)
            \/ HasExcludedBusinessModel(Subject, criteria))

\* a company disqualified by case-insensitive industry exclusion alone, while
\* a soft constraint fails too
C2_Witness ==
    /\ Done("apply")
    /\ result.value.is_disqualified
    /\ ~SharesDealbreaker(Subject, criteria)
    /\ ~HasExcludedBusinessModel(Subject, criteria)
    /\ \E i \in 1..Len(Subject.industries) :
           /\ InSeq(lower(Subject.industries[i]), LowerAll(criteria.industries_exclude))
           /\ ~InSeq(Subject.industries[i], criteria.industries_exclude)
    /\ result.value.failed_filters # <<>>

\* C3: in every FilterResult of HardFilters.apply, and in the filter fields of
\* every ScoredCompany, passed holds exactly when is_disqualified is false and
\* failed_filters is empty; under criteria without any constraint every
\* company passes.
C3_PassedIff ==
    /\ Done("apply") =>
           (result.value.passed <=>
               (~result.value.is_disqualified /\ result.value.failed_filters = <<>>))
    /\ \A r \in ReturnedRecords :
           r.passed_filters <=> (~r.is_disqualified /\ r.failed_filters = <<>>)
    /\ (Done("apply") /\ criteria = AcquisitionCriteria) => result.value.passed
    /\ (Done("quick_filter") /\ criteria = AcquisitionCriteria) => result.value

\* a company that is not disqualified and still does not pass
C3_Witness ==
    /\ Done("apply")
    /\ ~result.value.is_disqualified
    /\ result.value.failed_filters # <<>>
    /\ ~result.value.passed

\* the criteria set no requirement for the category
NoRequirement(crit, category) ==
    CASE category = "industry" -> crit.industries_include = <<>>
      [] category = "keyword" -> crit.keywords_include = <<>>
      [] category = "business_model" -> crit.business_model.types = <<>>
      [] category = "customer_type" -> crit.customer_type = <<>>
      [] category = "geography" ->
            crit.geography.countries = <<>> /\ crit.geography.regions = <<>>
      [] category = "size" -> \A b \in DOMAIN crit.size : crit.size[b] = <<>>
      [] category = "compliance" -> crit.compliance_tags = <<>>
      [] category = "signals" -> crit.preferred_signals = <<>>

\* C7: a category for which the criteria set no requirement scores 1.0 in
\* the score_breakdown of every returned record, whatever the company's data.
C7_NoRequirementScoresOne ==
    \A r \in ReturnedRecords :
        \A c \in CategorySet :
            NoRequirement(criteria, c) => r.score_breakdown[c] = One

\* a company without any business model or signal, scored 1.0 on both for
\* want of a requirement while it scores 0 on the industries it lacks
C7_Witness ==
    /\ Done("score")
    /\ Subject.business_model = <<>>
    /\ Subject.signals_detected = <<>>
    /\ NoRequirement(criteria, "business_model")
    /\ NoRequirement(criteria, "signals")
    /\ ~NoRequirement(criteria, "industry")
    /\ result.value.score_breakdown.business_model = One
    /\ result.value.score_breakdown.signals = One
    /\ result.value.score_breakdown.industry = Zero

\* the confidence fields of the company lie in [0,1]
ConfidencesInUnit(company) ==
    /\ InUnit(company.business_model_confidence)
    /\ InUnit(company.extraction_confidence)
    /\ CarriesVerticalFields(company)
    /\ InUnit(company.cannabis_confidence)
    /\ InUnit(company.software_revenue_confidence)

\* every weight the criteria give is non-negative
NonNegativeWeights(crit) ==
    \A k \in DOMAIN crit.weights : RLe(Zero, crit.weights[k])

DocumentedDefault(category) ==
    CASE category = "industry" -> Q(20, 100)
      [] category = "keyword" -> Q(15, 100)
      [] category = "business_model" -> Q(20, 100)
      [] category = "customer_type" -> Q(15, 100)
      [] category = "geography" -> Q(10, 100)
      [] category = "size" -> Q(10, 100)
      [] category = "compliance" -> Q(5, 100)
      [] category = "signals" -> Q(5, 100)

\* criteria.weights[category] if present, else the documented default
StatedWeight(crit, category) ==
    IF category \in DOMAIN crit.weights THEN crit.weights[category]
    ELSE DocumentedDefault(category)

\* sum over the categories cats of sub-score * weight
RECURSIVE WeightedSum(_, _, _)
WeightedSum(breakdown, crit, cats) ==
    IF cats = <<>> THEN Zero
    ELSE RAdd(RMul(breakdown[Head(cats)], StatedWeight(crit, Head(cats))),
              WeightedSum(breakdown, crit, Tail(cats)))

\* sum over the categories cats of the weights
RECURSIVE TotalWeight(_, _)
TotalWeight(crit, cats) ==
    IF cats = <<>> THEN Zero
    ELSE RAdd(StatedWeight(crit, Head(cats)), TotalWeight(crit, Tail(cats)))

\* 100 * (sum of sub-score * weight) / (sum of weights) over cats, 0 for no weight
StatedFit(breakdown, crit, cats) ==
    IF TotalWeight(crit, cats) = Zero THEN Zero
    ELSE RDiv(RMul(Q(100, 1), WeightedSum(breakdown, crit, cats)),
              TotalWeight(crit, cats))

\* the categories other than one
Without(category) == SelectSeq(Categories, LAMBDA c : c # category)

\* C9: for a company that is not disqualified, fit_score is 100 * (sum over
\* the eight categories of sub-score * weight) / (sum of the eight weights),
\* a weight being criteria.weights[category] if present and the documented
\* default otherwise, whatever the weights sum to; a category of weight 0
\* contributes nothing; a total weight of 0 gives fit_score 0.
C9_FitScoreFormula ==
    (Done("score") /\ ~result.value.is_disqualified) =>
        /\ result.value.fit_score =
               StatedFit(result.value.score_breakdown, criteria, Categories)
        /\ \A c \in CategorySet :
               StatedWeight(criteria, c) = Zero =>
                   result.value.fit_score =
                       StatedFit(result.value.score_breakdown, criteria, Without(c))
        /\ TotalWeight(criteria, Categories) = Zero => result.value.fit_score = Zero

\* weights that do not sum to 1, one of them 0 on a category whose sub-score
\* is positive, and a fit_score strictly between 0 and 100
C9_Witness ==
    /\ Done("score")
    /\ ~result.value.is_disqualified
    /\ "industry" \in DOMAIN criteria.weights
    /\ criteria.weights["industry"] = Zero
    /\ RLt(Zero, result.value.score_breakdown.industry)
    /\ TotalWeight(criteria, Categories) # One
    /\ RLt(Zero, result.value.fit_score)
    /\ RLt(result.value.fit_score, Q(100, 1))

\* weights is exactly {"industry": 1.0}, the industry sub-score is 1.0 and the
\* company is not disqualified
IndustryOnlyCase ==
    /\ Done("score")
    /\ criteria.weights = [ k \in {"industry"} |-> One ]
    /\ result.value.score_breakdown.industry = One
    /\ ~result.value.is_disqualified

\* C10 as stated: in the industry-only case fit_score is greater than 85
\* whatever the other sub-scores are.
C10_AsStated == IndustryOnlyCase => RLt(Q(85, 1), result.value.fit_score)

\* C10, amended: in the industry-only case fit_score is at least
\* 100 * 1.0 / 1.8, the total weight being 1.0 + 0.8; the other sub-scores
\* decide how far above that it is.
C10_IndustryOnlyFloor == IndustryOnlyCase => RLe(Q(1000, 18), result.value.fit_score)

\* the industry-only case with every other sub-score 0: fit_score is 100 / 1.8
C10_Witness ==
    /\ IndustryOnlyCase
    /\ \A c \in CategorySet \ {"industry"} : result.value.score_breakdown[c] = Zero
    /\ result.value.fit_score = Q(1000, 18)

\* a score_and_rank call has finished, by returning or by raising
Ranked == pc = "done" /\ op = "score_and_rank"

\* C4 as stated: for an input list of N >= 0 companies score_and_rank returns
\* exactly N records, one per input company, the record at output position i
\* having rank i, so that the ranks are exactly 1..N; the empty list gives
\* the empty list.
C4_AsStated ==
    Ranked =>
        /\ result.raised = ""
        /\ Len(result.value) = Len(companies)
        /\ \A i \in 1..Len(result.value) : result.value[i].rank = <<i>>
        /\ \A i \in 1..Len(companies) :
               \E k \in 1..Len(result.value) : result.value[k].name = companies[i].name

\* the sort key of a record
Key(r) == <<r.fit_score, r.confidence>>

\* a record without its rank
Unranked(r) == [ r EXCEPT !.rank = <<>> ]

\* what score returns for each company of the batch, called alone
ScoredAlone == Map(LAMBDA company : score(company, criteria).value, companies)

\* C5: the output of score_and_rank is ordered by (fit_score, confidence)
\* descending, and the records tied on both appear in the relative order
\* their companies have in the input list.
C5_OrderedAndStable ==
    Done("score_and_rank") =>
        /\ \A a, b \in 1..Len(result.value) :
               a < b =>
                   \/ RLt(result.value[b].fit_score, result.value[a].fit_score)
                   \/ /\ result.value[a].fit_score = result.value[b].fit_score
                      /\ RLe(result.value[b].confidence, result.value[a].confidence)
        /\ \A k \in 1..Len(result.value) :
               SelectSeq(Map(Unranked, result.value),
                         LAMBDA r : Key(r) = Key(result.value[k]))
               = SelectSeq(ScoredAlone, LAMBDA r : Key(r) = Key(result.value[k]))

\* a batch of three, the first two tied on fit_score with the confidences
\* ascending, the last two tied on both keys under different names: the sort
\* swaps the former and keeps the latter in input order
C5_Witness ==
    /\ Done("score_and_rank")
    /\ Len(companies) = 3
    /\ ScoredAlone[1].fit_score = ScoredAlone[2].fit_score
    /\ RLt(ScoredAlone[1].confidence, ScoredAlone[2].confidence)
    /\ Key(ScoredAlone[2]) = Key(ScoredAlone[3])
    /\ companies[2].name # companies[3].name
    /\ result.value[1].name = companies[2].name
    /\ result.value[2].name = companies[3].name
    /\ result.value[3].name = companies[1].name

\* the number of elements of a sequence equal to x
Count(x, xs) == Cardinality({ i \in 1..Len(xs) : xs[i] = x })

Scored == pc = "done" /\ op = "score"

\* business_model = "services", customer_types = ["B2C"], industries = ["retail"]
ZeroOverlap(company) ==
    /\ company.business_model = <<"services">>
    /\ company.customer_types = <<"B2C">>
    /\ company.industries = <<"retail">>

\* C11 as stated: against the reference criteria as listed (keywords_include
\* and everything else not listed at its default) the company with zero
\* overlapping attributes gets a fit_score below 30.
C11_AsStated ==
    (Scored /\ criteria = ListedCriteria /\ ZeroOverlap(Subject))
    => (result.raised = "" /\ RLt(result.value.fit_score, Q(30, 1)))

\* C11 for make_criteria() itself and a company object that carries the
\* vertical attributes: without page text the zero-overlap company scores
\* 100 * 0.30 / 1.30, below 30.
C11_NoMatchUnderMakeCriteria ==
    (Done("score") /\ criteria = make_criteria /\ ZeroOverlap(Subject)
        /\ Subject.page_contents = <<>>)
    => result.value.fit_score = Q(300, 13)

\* the soft failures a finished apply call recorded under the label of one
\* size dimension
SizeFailures(label) ==
    SelectSeq(result.value.failed_filters,
              LAMBDA f : f[1] \in { label \o " below minimum", label \o " above maximum" })

\* the value is present and strictly below the configured minimum or strictly
\* above the configured maximum
OutOfBounds(value, min, max) ==
    /\ value # <<>>
    /\ \/ min # <<>> /\ value[1] < min[1]
       \/ max # <<>> /\ value[1] > max[1]

\* C12 as stated: apply records a size soft failure for a dimension exactly
\* when the company's value for it is present and strictly below the
\* configured minimum or strictly above the configured maximum.
C12_AsStated ==
    Done("apply") =>
        /\ SizeFailures("Employee count") # <<>>
              <=> OutOfBounds(Subject.employees_estimate,
                              criteria.size.employees_min, criteria.size.employees_max)
        /\ SizeFailures("Revenue") # <<>>
              <=> OutOfBounds(Subject.revenue_estimate,
                              criteria.size.revenue_min, criteria.size.revenue_max)
        /\ SizeFailures("Funding") # <<>>
              <=> OutOfBounds(Subject.funding_total,
                              criteria.size.funding_min, criteria.size.funding_max)

\* the geography soft failures a finished apply call recorded
GeographyFailures ==
    SelectSeq(result.value.failed_filters,
              LAMBDA f : f[1] \in { "Company in excluded country",
                                    "Company not in required countries",
                                    "Company not in required regions" })

\* the headquarters is present and contains one of the names, ignoring case
LocatedIn(company, names) ==
    /\ TruthyStr(company.headquarters)
    /\ AnyIn(names, lower(company.headquarters[1]))

\* C13 as stated: a geography failure is recorded only when the headquarters
\* is present and matches an excluded country, or required countries/regions
\* are configured and it matches none of them; a headquarters that matches a
\* required location and no excluded country records none.
C13_AsStated ==
    Done("apply") =>
        /\ GeographyFailures # <<>> =>
              /\ TruthyStr(Subject.headquarters)
              /\ \/ LocatedIn(Subject, criteria.geography.exclude_countries)
                 \/ /\ criteria.geography.countries \o criteria.geography.regions # <<>>
                    /\ ~LocatedIn(Subject, criteria.geography.countries
                                           \o criteria.geography.regions)
        /\ ( /\ LocatedIn(Subject, criteria.geography.countries
                                   \o criteria.geography.regions)
             /\ ~LocatedIn(Subject, criteria.geography.exclude_countries) )
              => GeographyFailures = <<>>

\* C13: apply records a geography failure exactly when the headquarters is
\* present and it contains an excluded country, or required countries are
\* configured and it contains none of them, or required regions are
\* configured and it contains none of them; the two required lists are
\* tested independently of each other.
C13_GeographyFailureIff ==
    Done("apply") =>
        ( GeographyFailures # <<>> <=>
            /\ TruthyStr(Subject.headquarters)
            /\ \/ LocatedIn(Subject, criteria.geography.exclude_countries)
               \/ /\ criteria.geography.countries # <<>>
                  /\ ~LocatedIn(Subject, criteria.geography.countries)
               \/ /\ criteria.geography.regions # <<>>
                  /\ ~LocatedIn(Subject, criteria.geography.regions) )

\* a headquarters in a required country and outside every required region:
\* the region failure is recorded although a required location matches
C13_Witness ==
    /\ Done("apply")
    /\ LocatedIn(Subject, criteria.geography.countries)
    /\ criteria.geography.regions # <<>>
    /\ ~LocatedIn(Subject, criteria.geography.regions)
    /\ ~LocatedIn(Subject, criteria.geography.exclude_countries)
    /\ GeographyFailures =
           << <<"Company not in required regions", criteria.geography.regions>> >>

\* C14 as stated: a minimally populated EnrichedCompany (every optional
\* field absent, empty lists, no page text) is scored and returned as a
\* ScoredCompany; score does not end in an error.
C14_AsStated ==
    (Scored /\ Subject = EnrichedCompany) => result.raised = ""

\* every EnrichedCompany field of the record a score call returned equals
\* the field of the input company, and applying the filters again to the
\* inputs of a finished apply call gives the FilterResult it returned
CarriedBack ==
    /\ Done("score") => \A a \in DOMAIN EnrichedCompany : result.value[a] = Subject[a]
    /\ Done("apply") => result.value = apply(Subject, criteria)

RankedRecordsOf(company) ==
    { i \in 1..Len(result.value) : result.value[i].name = company.name }

\* a category sub-score of the record is strictly below 1.0
LoweredSubScore(r) ==
    \E c \in DOMAIN r.score_breakdown : RLt(r.score_breakdown[c], One)

HasFailure(r, starts) ==
    \E i \in 1..Len(r.failed_filters) : r.failed_filters[i][1] \in starts

SizeMessages ==
    { label \o bound : label \in { "Employee count", "Revenue", "Funding" },
                       bound \in { " below minimum", " above maximum" } }

ReturnedEvidence ==
    IF Done("score")
    THEN { result.value.evidence[i] : i \in 1..Len(result.value.evidence) }
    ELSE {}

\* C17 as stated: every evidence snippet has total length at most 200
\* characters, including any leading or trailing "..." markers, for every
\* page text and every keyword length.
C17_AsStated == \A e \in ReturnedEvidence : Len(e.snippet) <= MAX_SNIPPET_LENGTH

\* the place of a summary line in the fixed priority order
Priority(label) ==
    CASE label = "CANNABIS SOFTWARE" -> 1
      [] label \in { "ARR", "Estimated ARR" } -> 2
      [] label = "Software revenue indicators" -> 3
      [] label = "business model" -> 4
      [] label = "Industry" -> 5
      [] label = "Team size" -> 6
      [] label = "Customer focus" -> 7
      [] label = "Signals" -> 8
      [] label = "Limited match data available" -> 9

\* the labels of the lines of a summary
Labels(summary) == { summary[i][1] : i \in 1..Len(summary) }

\* no line of the summary qualifies for the company under the criteria
NothingQualifies(company, crit, score_breakdown) ==
    /\ ~company.is_cannabis_industry
    /\ ~Truthy(company.revenue_estimate)
    /\ RLe(company.software_revenue_confidence, Q(3, 10))
    /\ ~(TruthyStr(company.business_model) /\ RLt(Q(1, 2), score_breakdown.business_model))
    /\ \A i \in 1..Len(company.industries), j \in 1..Len(crit.industries_include) :
           lower(company.industries[i]) # lower(crit.industries_include[j])
    /\ ~Truthy(company.employees_estimate)
    /\ \A i \in 1..Len(company.customer_types) :
           ~InSeq(company.customer_types[i], crit.customer_type)
    /\ \A i \in 1..Len(company.signals_detected) :
           ~InSeq(company.signals_detected[i], crit.preferred_signals)

\* C18: match_summary of every ScoredCompany has between 1 and 7 entries, in
\* the fixed priority order; the industry line never appears together with
\* the vertical highlight; the fallback appears only as the sole entry,
\* exactly when no other line qualifies.
C18_SummaryShape ==
    /\ \A r \in ReturnedRecords :
          /\ Len(r.match_summary) \in 1..MAX_SUMMARY
          /\ \A i, j \in 1..Len(r.match_summary) :
                 i < j => Priority(r.match_summary[i][1]) < Priority(r.match_summary[j][1])
          /\ ~({ "CANNABIS SOFTWARE", "Industry" } \subseteq Labels(r.match_summary))
          /\ "Limited match data available" \in Labels(r.match_summary)
                 => Len(r.match_summary) = 1
    /\ Done("score") =>
          ( "Limited match data available" \in Labels(result.value.match_summary)
              <=> NothingQualifies(Subject, criteria, result.value.score_breakdown) )

\* a summary of seven lines
C18_Witness ==
    /\ Done("score")
    /\ Len(result.value.match_summary) = MAX_SUMMARY
    /\ Labels(result.value.match_summary) =
           { "CANNABIS SOFTWARE", "Estimated ARR", "Software revenue indicators",
             "business model", "Team size", "Customer focus", "Signals" }

\* the places, in the input list, of the candidates deduplicate returned
Kept == { result.value[k] : k \in 1..Len(result.value) }

\* the normalized domain an input candidate carries, "" for none
DomainOf(candidate) ==
    IF TruthyStr(candidate.domain) THEN normalize_domain(candidate.domain[1]) ELSE ""

\* the input candidates that carry the normalized domain
Sharing(d) == { i \in 1..Len(arg) : DomainOf(arg[i]) = d }

\* the normalized domains that several input candidates carry
SharedDomains ==
    { d \in { DomainOf(arg[i]) : i \in 1..Len(arg) } : d # "" /\ Cardinality(Sharing(d)) > 1 }

\* the names of the two input candidates match after normalisation
SameName(i, j) == _names_match(_normalize_name(arg[i].name), _normalize_name(arg[j].name))

\* at most one returned candidate has each domain the input carries
OnePerDomain ==
    \A i \in 1..Len(arg) :
        DomainOf(arg[i]) # "" =>
            Cardinality({ k \in Kept : companies[k].domain = << DomainOf(arg[i]) >> }) <= 1

\* candidates with pairwise different domains and non-matching names are all
\* kept in input order
UniqueKept ==
    ( \A i, j \in 1..Len(arg) :
          i < j => ~SameName(i, j) /\ DomainOf(arg[i]) # DomainOf(arg[j]) )
    => result.value = [ k \in 1..Len(arg) |-> k ]

\* C19 as stated: at most one returned candidate per input domain; of
\* several input candidates sharing a normalized domain the first one in
\* input order is the one kept, with its own name; unique candidates are
\* all kept in input order.
C19_AsStated ==
    Done("deduplicate") =>
        /\ OnePerDomain
        /\ \A d \in SharedDomains :
              /\ First(Sharing(d)) \in Kept
              /\ companies[First(Sharing(d))].name = arg[First(Sharing(d))].name
              /\ companies[First(Sharing(d))].domain = <<d>>
        /\ UniqueKept

\* C19: at most one returned candidate per input domain; of several input
\* candidates sharing a normalized domain only the first can be kept, and it
\* is kept, with its own name and that domain, exactly when its name matches
\* the name of no candidate kept before it; unique candidates are all kept
\* in input order.
C19_FirstOfDomain ==
    Done("deduplicate") =>
        /\ OnePerDomain
        /\ \A d \in SharedDomains :
              /\ Sharing(d) \cap Kept \subseteq { First(Sharing(d)) }
              /\ First(Sharing(d)) \in Kept
                    <=> \A j \in Kept : j < First(Sharing(d)) => ~SameName(First(Sharing(d)), j)
              /\ First(Sharing(d)) \in Kept =>
                    /\ companies[First(Sharing(d))].name = arg[First(Sharing(d))].name
                    /\ companies[First(Sharing(d))].domain = <<d>>
        /\ UniqueKept

\* three candidates: the first of the two that share a domain is dropped for
\* its name, so neither of them is kept
C19_Witness ==
    /\ Done("deduplicate")
    /\ \E d \in SharedDomains :
          /\ Sharing(d) \cap Kept = {}
          /\ \E j \in Kept : j < First(Sharing(d)) /\ SameName(First(Sharing(d)), j)

\* the fields _merge_candidate looks at
MergedTexts == { "domain", "website", "description", "industry", "location" }

\* the returned candidate stands for input candidate i: it has its domain or
\* a matching name
Represents(k, i) ==
    \/ DomainOf(arg[i]) # "" /\ companies[k].domain = << DomainOf(arg[i]) >>
    \/ SameName(k, i)

\* every non-empty field of input candidate i is non-empty in candidate k as
\* the call left it
Covers(k, i) ==
    /\ \A f \in MergedTexts : TruthyStr(arg[i][f]) => TruthyStr(companies[k][f])
    /\ Truthy(arg[i].employee_count) => Truthy(companies[k].employee_count)

\* no non-empty field of a returned candidate was overwritten
NothingOverwritten ==
    \A k \in Kept :
        /\ \A f \in MergedTexts \ { "domain" } :
               TruthyStr(arg[k][f]) => companies[k][f] = arg[k][f]
        /\ DomainOf(arg[k]) # "" => companies[k].domain = << DomainOf(arg[k]) >>
        /\ Truthy(arg[k].employee_count) => companies[k].employee_count = arg[k].employee_count

\* C20 as stated: for every input candidate dropped as a duplicate, each of
\* its non-empty fields among domain, website, description, industry,
\* location and employee_count is non-empty in the returned candidate that
\* represents that company; merging never overwrites a non-empty value.
C20_AsStated ==
    Done("deduplicate") =>
        /\ \A i \in (1..Len(arg)) \ Kept : \E k \in Kept : Represents(k, i) /\ Covers(k, i)
        /\ NothingOverwritten


\* the entries of industries_include that are, case-insensitively, among the
\* company's industries
PresentEntries(company, crit) ==
    { i \in 1..Len(crit.industries_include) :
        InSeq(lower(crit.industries_include[i]), LowerAll(company.industries)) }

\* the industry override does not apply: the flag is off or no entry of
\* industries_include names the vertical
NoIndustryOverride(company, crit) ==
    ~(company.is_cannabis_industry
      /\ \E i \in 1..Len(crit.industries_include) :
             Contains(lower(crit.industries_include[i]), "cannabis"))

\* C21 as stated: with industries_include non-empty the base industry
\* sub-score equals the fraction of the entries of industries_include that
\* are present, case-insensitively, in the company's industries, capped at
\* 1.0, and is 0 when the company has no industries; repeating an industry in
\* the company's list does not raise the score.
C21_AsStated ==
    (Done("score") /\ criteria.industries_include # <<>>
        /\ NoIndustryOverride(Subject, criteria))
    => result.value.score_breakdown.industry
           = Fraction(Cardinality(PresentEntries(Subject, criteria)),
                      Len(criteria.industries_include))


\* the per-dimension score as stated: nothing without a configured bound,
\* 0.5 for an unknown value, 1.0 within the bounds (inclusive), 0.0 outside
StatedDimension(value, min, max) ==
    IF min = <<>> /\ max = <<>> THEN <<>>
    ELSE IF value = <<>> THEN << Q(1, 2) >>
    ELSE IF OutOfBounds(value, min, max) THEN <<Zero>>
    ELSE <<One>>

\* the per-dimension scores as stated, for employees, revenue and funding
StatedDimensions(company, crit) ==
    StatedDimension(company.employees_estimate,
                    crit.size.employees_min, crit.size.employees_max)
    \o StatedDimension(company.revenue_estimate,
                       crit.size.revenue_min, crit.size.revenue_max)
    \o StatedDimension(company.funding_total,
                       crit.size.funding_min, crit.size.funding_max)

\* C22 as stated: the size sub-score is the average, over the dimensions
\* with a configured min or max bound, of 1.0 for a value within the bounds
\* (inclusive), 0.0 for a value outside and 0.5 for an unknown value;
\* dimensions without a bound are left out, and with no bounded dimension the
\* score is 1.0.
C22_AsStated ==
    Done("score") =>
        result.value.score_breakdown.size
            = average_or_one(StatedDimensions(Subject, criteria))


\* the size dimensions: the label of the filter's messages, the company's
\* field and the two bounds
SizeDimensions ==
    { <<"Employee count", "employees_estimate", "employees_min", "employees_max">>,
      <<"Revenue", "revenue_estimate", "revenue_min", "revenue_max">>,
      <<"Funding", "funding_total", "funding_min", "funding_max">> }

\* the record carries a soft failure of the dimension
FailedOn(r, d) == HasFailure(r, { d[1] \o " below minimum", d[1] \o " above maximum" })

\* the dimension contributes 0.0 to the size sub-score
ScoredZero(company, crit, d) ==
    score_dimension(company[d[2]], crit.size[d[3]], crit.size[d[4]]) = <<Zero>>

\* C29: the filter records a size soft failure for a dimension exactly when
\* that dimension contributes 0.0 to the size sub-score; a company with a
\* size soft failure has a size sub-score strictly below 1.0, and a company
\* with none has a size sub-score of at least 0.5, every contribution being
\* 1.0 or 0.5.
C29_FilterAndScorerAgree ==
    Done("score") =>
        /\ \A d \in SizeDimensions :
               FailedOn(result.value, d) <=> ScoredZero(Subject, criteria, d)
        /\ result.value.failed_filters = apply(Subject, criteria).failed_filters
        /\ HasFailure(result.value, SizeMessages)
               => RLt(result.value.score_breakdown.size, One)
        /\ ~HasFailure(result.value, SizeMessages)
               => RLe(Q(1, 2), result.value.score_breakdown.size)

\* a company above the employee maximum whose revenue is unknown under a
\* revenue bound and whose funding is within its bound: one failure, and a
\* size sub-score of (0 + 0.5 + 1) / 3
C29_Witness ==
    /\ Done("score")
    /\ result.value.failed_filters = << <<"Employee count above maximum", 2, 1>> >>
    /\ Subject.revenue_estimate = <<>>
    /\ criteria.size.revenue_min = <<2>>
    /\ Subject.funding_total = <<1>>
    /\ criteria.size.funding_max = <<1>>
    /\ result.value.score_breakdown.size = Q(1, 2)


\* C23: for a company whose confidences lie in [0,1], score_breakdown
\* ["industry"] is the higher of the base industry score and the vertical
\* confidence when the company carries the vertical flag and an entry of
\* industries_include names the vertical, and the base score otherwise;
\* score_breakdown["business_model"] is the higher of the base business-model
\* score and the software revenue confidence when that confidence exceeds
\* 0.5, and the base score otherwise; the two are never added and both
\* results are at most 1.0.
C23_OverridesTakeTheHigher ==
    (Done("score") /\ ConfidencesInUnit(Subject)) =>
        /\ result.value.score_breakdown.industry
               = (IF NoIndustryOverride(Subject, criteria)
                  THEN _score_industry(Subject, criteria)
                  ELSE RMax(_score_industry(Subject, criteria),
                            Subject.cannabis_confidence))
        /\ result.value.score_breakdown.business_model
               = (IF RLt(Q(1, 2), Subject.software_revenue_confidence)
                  THEN RMax(_score_business_model(Subject, criteria),
                            Subject.software_revenue_confidence)
                  ELSE _score_business_model(Subject, criteria))
        /\ result.value.score_breakdown.industry
               \in { _score_industry(Subject, criteria), Subject.cannabis_confidence }
        /\ result.value.score_breakdown.business_model
               \in { _score_business_model(Subject, criteria),
                     Subject.software_revenue_confidence }
        /\ RLe(result.value.score_breakdown.industry, One)
        /\ RLe(result.value.score_breakdown.business_model, One)

\* a flagged company matching one of two wanted industries, with a matching
\* business model of low confidence: both overrides replace a lower, positive
\* base score
C23_Witness ==
    /\ Done("score")
    /\ ~NoIndustryOverride(Subject, criteria)
    /\ _score_industry(Subject, criteria) = Q(1, 2)
    /\ Subject.cannabis_confidence = Q(9, 10)
    /\ result.value.score_breakdown.industry = Q(9, 10)
    /\ _score_business_model(Subject, criteria) = Q(2, 5)
    /\ Subject.software_revenue_confidence = Q(7, 10)
    /\ result.value.score_breakdown.business_model = Q(7, 10)


\* the key fields of the company that are present: set, and not empty or 0
PresentFields(company) ==
    { f \in { "business_model", "headquarters" } : TruthyStr(company[f]) }
    \cup { f \in { "customer_types", "industries" } : company[f] # <<>> }
    \cup { f \in { "employees_estimate" } : Truthy(company[f]) }

\* factor (b): the mean confidence of the evidence, 0.3 without evidence
EvidenceFactor(evidence) ==
    IF evidence = <<>> THEN Q(3, 10)
    ELSE RDivInt(RSum([ i \in 1..Len(evidence) |-> evidence[i].confidence ]), Len(evidence))

\* factors (c) and (d) that apply
OptionalFactors(company) ==
    (IF TruthyStr(company.business_model)
     THEN << company.business_model_confidence >> ELSE <<>>)
    \o (IF RLt(Zero, company.extraction_confidence)
        THEN << company.extraction_confidence >> ELSE <<>>)

OccursIn(text, keyword) ==
    \E i \in 1..(Len(text) - Len(keyword) + 1) :
        /\ lower(SubSeq(text, i, i + Len(keyword) - 1)) = lower(keyword)
        /\ ~WordAt(text, i - 1)
        /\ ~WordAt(text, i + Len(keyword))

\* the entries of keywords_include with an evidence record in the list
WithEvidence(evidence, crit) ==
    { i \in 1..Len(crit.keywords_include) :
        \E k \in 1..Len(evidence) :
            evidence[k].criterion = "keyword:" \o crit.keywords_include[i] }

\* an entry of keywords_include has an evidence record exactly when it occurs
\* in the concatenated page texts
EvidenceIffOccurs ==
    Done("score") =>
        WithEvidence(result.value.evidence, criteria)
            = { i \in 1..Len(criteria.keywords_include) :
                  OccursIn(all_content(Subject), criteria.keywords_include[i]) }

\* C25 as stated: with keywords_include non-empty the keyword sub-score
\* equals the fraction of the entries of keywords_include for which
\* extract_evidence produced an evidence record, capped at 1.0; a keyword
\* gets an evidence record exactly when it occurs (word-boundary,
\* case-insensitive) in the concatenation of the page texts, so a company
\* without page text scores 0 on keyword.
C25_AsStated ==
    (Done("score") /\ criteria.keywords_include # <<>>) =>
        /\ result.value.score_breakdown.keyword
               = Fraction(Cardinality(WithEvidence(result.value.evidence, criteria)),
                          Len(criteria.keywords_include))
        /\ EvidenceIffOccurs
        /\ Subject.page_contents = <<>> => result.value.score_breakdown.keyword = Zero


\* every sub-score of a is at least the corresponding sub-score of b
Dominates(a, b) ==
    \A c \in CategorySet : RLe(b.score_breakdown[c], a.score_breakdown[c])

\* a is higher than b in a category of positive weight
HigherWhereWeighted(a, b, crit) ==
    \E c \in CategorySet :
        /\ RLt(Zero, StatedWeight(crit, c))
        /\ RLt(b.score_breakdown[c], a.score_breakdown[c])

\* the weights are non-negative and their total is positive
UsableWeights(crit) ==
    NonNegativeWeights(crit) /\ RLt(Zero, TotalWeight(crit, Categories))

\* records i and j of a ranking are ordered as their sub-scores demand
OrderedAsScored(ranking, i, j, crit) ==
    (~ranking[i].is_disqualified /\ ~ranking[j].is_disqualified
        /\ Dominates(ranking[i], ranking[j]))
    => /\ RLe(ranking[j].fit_score, ranking[i].fit_score)
       /\ HigherWhereWeighted(ranking[i], ranking[j], crit)
              => (RLt(ranking[j].fit_score, ranking[i].fit_score) /\ i < j)

\* C26: under non-negative weights of positive total, of two companies that
\* are not disqualified the one whose sub-scores are all at least the
\* other's has at least the other's fit_score, a strictly higher one when it
\* is higher in a category of positive weight, and score_and_rank then ranks
\* it before the other.
C26_FitScoreMonotone ==
    (Done("score_and_rank") /\ UsableWeights(criteria)) =>
        \A i, j \in 1..Len(result.value) :
            OrderedAsScored(result.value, i, j, criteria)

\* the company matching more was passed second and is ranked first; under
\* the same criteria the sub-scores differ in a category of weight 0 as well
C26_Witness ==
    /\ Done("score_and_rank")
    /\ UsableWeights(criteria)
    /\ StatedWeight(criteria, "size") = Zero
    /\ companies[1].name = "Low Match"
    /\ companies[2].name = "High Match"
    /\ result.value[1].name = "High Match"
    /\ result.value[1].rank = <<1>>
    /\ Dominates(result.value[1], result.value[2])
    /\ RLt(result.value[2].fit_score, result.value[1].fit_score)


-----------------------------------------------------------------------------
(* The search runs.                                                        *)

\* the steps of the stated state machine
StatusSteps ==
    { <<"pending", "running">>, <<"running", "completed">>, <<"running", "failed">> }

\* C27: a run is tracked from status pending on, every change of its
\* in-memory status is pending -> running, running -> completed or
\* running -> failed, and no step changes a status of completed or failed
C27_AsStated ==
    [][ /\ \A run_id \in DOMAIN active_searches' \ DOMAIN active_searches :
             active_searches'[run_id].status = "pending"
        /\ \A run_id \in DOMAIN active_searches :
             \/ active_searches'[run_id].status = active_searches[run_id].status
             \/ << active_searches[run_id].status,
                   active_searches'[run_id].status >> \in StatusSteps ]_vars

\* the last response is one of get_results for a run tracked in memory
ResultsOfTracked ==
    /\ op = "get_results"
    /\ result.raised = ""
    /\ arg \in DOMAIN active_searches

Settled(run_id) ==
    /\ run_id \in DOMAIN active_searches
    /\ active_searches[run_id].status \in { "completed", "failed" }

\* a stage of the run raised and run_search has ended
EndedRaising(run_id) ==
    /\ run_id \in DOMAIN tasks
    /\ tasks[run_id].at = "done"
    /\ tasks[run_id].e # <<>>

\* the run is failed in memory with the message of the exception recorded
FailedWithError(run_id) ==
    /\ active_searches[run_id].status = "failed"
    /\ active_searches[run_id].error = tasks[run_id].e

\* C30: every run start_search tracks gets to status completed or failed
\* when the task runs and every stage returns or raises, and a run of which
\* a stage raised has ended as failed with the message of the exception
C30_RunsSettle ==
    \A run_id \in RunIds :
        /\ (run_id \in DOMAIN active_searches) ~> Settled(run_id)
        /\ [](EndedRaising(run_id) => FailedWithError(run_id))

\* get_status reports a run as failed with the message, after one of its
\* stages raised
C30_Witness ==
    /\ op = "get_status"
    /\ result.raised = ""
    /\ arg \in DOMAIN tasks
    /\ EndedRaising(arg)
    /\ result.value.status = "failed"
    /\ result.value.error_message = <<"ConnectionError">>

=============================================================================
